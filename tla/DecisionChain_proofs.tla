----------------------- MODULE DecisionChain_proofs ------------------------
(***************************************************************************)
(* Theorems about the decision chain and the page that brings reports to   *)
(* it: for any files, samples and edits, what is saved is reviewed; for any*)
(* report, label and history of any length, the chain decides as its policy*)
(* says; and what the model is offered to cite is what is accepted of it.  *)
(***************************************************************************)
EXTENDS UpdateWorkflow, ResearchEngine, AdversarialReview, QuestionBudget,
        WellFoundedInduction, FiniteSetTheorems, SequenceTheorems, TLAPS

-----------------------------------------------------------------------------
(* The update page.                                                        *)

USE DEF MayImport, ReviewShown, ImpactShown

(* The argument: the source a file is compared with, captured when it was  *)
(* chosen, is still the one selected, because nothing changes the selection*)
(* while the file is read; and there is no material then to begin with.    *)
SelectionInv ==
  /\ MaterialMatchesSelection
  /\ parsing # Nil => material = Nil /\ parsing.selected = selected

LEMMA SelectionInit == Init => SelectionInv
  BY DEF Init, SelectionInv, MaterialMatchesSelection

LEMMA SelectionStep == SelectionInv /\ [Next]_vars => SelectionInv'
  <1> SUFFICES ASSUME SelectionInv, [Next]_vars PROVE SelectionInv'
    OBVIOUS
  <1> USE DEF SelectionInv, MaterialMatchesSelection
  <1>1. CASE LoadSample
    BY <1>1 DEF LoadSample, Loaded
  <1>2. ASSUME NEW file \in Files, ChooseFile(file) PROVE SelectionInv'
    BY <1>2 DEF ChooseFile, ProcessFile, Cleared
  <1>3. CASE Extracted
    BY <1>3 DEF Extracted, Loaded
  <1>4. CASE ExtractionFailed \/ ExtractionRefused
    BY <1>4 DEF ExtractionFailed, ExtractionRefused, SetAside
  <1>5. ASSUME NEW source \in Records, SelectSource(source) PROVE SelectionInv'
    BY <1>5 DEF SelectSource, Cleared
  <1>6. CASE StartOver
    BY <1>6 DEF StartOver, Cleared
  <1>7. ASSUME NEW m \in Metrics, NEW value \in EditsOf(m), Edit(m, value) PROVE SelectionInv'
    BY <1>7 DEF Edit
  <1>8. ASSUME NEW m \in Metrics, Accept(m) \/ Reject(m) PROVE SelectionInv'
    BY <1>8 DEF Accept, Reject
  <1>9. CASE Preview \/ BackToReview
    BY <1>9 DEF Preview, BackToReview
  <1>10. ASSUME NEW filled \in BOOLEAN, SetReviewer(filled) PROVE SelectionInv'
    BY <1>10 DEF SetReviewer
  <1>11. CASE Save \/ Saved \/ SaveFailed
    BY <1>11 DEF Save, Saved, SaveFailed
  <1>12. CASE UNCHANGED vars
    BY <1>12 DEF vars
  <1> QED
    BY <1>1, <1>2, <1>3, <1>4, <1>5, <1>6, <1>7, <1>8, <1>9, <1>10, <1>11, <1>12 DEF Next

(* The material under review is always the one selected: a file that was   *)
(* slow to read never lands under another selection (processFile, and the  *)
(* selection disabled by isParsing).                                       *)
THEOREM MaterialIsSelected == Spec => []MaterialMatchesSelection
  <1>1. SelectionInv => MaterialMatchesSelection
    BY DEF SelectionInv
  <1> QED
    BY <1>1, SelectionInit, SelectionStep, PTL DEF Spec

-----------------------------------------------------------------------------
(* What the chain makes of one report, without history and opinion.        *)

(* The sequence of growths is that of the report alone.                    *)
LEMMA OneGrowth ==
  ASSUME NEW growth \in Int
  PROVE  TrailingNonPositiveCount(<<>> \o <<growth>>) = IF growth <= 0 THEN 1 ELSE 0
  <1> DEFINE series == <<>> \o <<growth>>
  <1>1. series = <<growth>>
    OBVIOUS
  <1>2. {i \in DOMAIN series : \A j \in i..Len(series) : series[j] <= 0} = IF growth <= 0 THEN {1} ELSE {}
    BY <1>1
  <1> QED
    BY <1>2, FS_EmptySet, FS_Singleton DEF TrailingNonPositiveCount

NoInputs == [factor |-> "missing", shares |-> "missing", multiples |-> "missing", finite |-> TRUE]

(* V0.1 on one complete report with its growth.                            *)
LEMMA OneReportV01 ==
  ASSUME NEW rep, Complete(rep), rep.adjustedYoy \in Int, rep.adjustedYoy # Nil
  PROVE  LET chain == RunC04Chain(rep, <<>>, Nil, AllPending, NoInputs) IN
         /\ {"status", "quantitative", "accounting", "criterion", "count", "decisionGates",
             "assumption", "scenarios", "valuationGates"} \subseteq DOMAIN chain
         /\ chain.status = IF BridgeCloses(rep) THEN "ready" ELSE "blocked"
         /\ chain.quantitative = IF rep.adjustedYoy <= 0 THEN "watch" ELSE "clear"
         /\ {"EG-01", "EG-02"} \subseteq chain.decisionGates
  <1> DEFINE chain == RunC04Chain(rep, <<>>, Nil, AllPending, NoInputs)
             count == TrailingNonPositiveCount(<<>> \o <<rep.adjustedYoy>>)
  <1>1. count = IF rep.adjustedYoy <= 0 THEN 1 ELSE 0
    BY OneGrowth
  <1>2. OpenGates(AllPending) = {"EG-01", "EG-02"}
    BY DEF OpenGates, AllPending
  <1>3. chain.status = IF BridgeCloses(rep) THEN "ready" ELSE "blocked"
    BY DEF RunC04Chain
  <1>4. chain.quantitative = CASE count = 0 -> "clear" [] count = 1 -> "watch" [] OTHER -> "triggered"
    BY DEF RunC04Chain
  <1>5. OpenGates(AllPending) \subseteq chain.decisionGates
    BY DEF RunC04Chain
  <1>6. {"status", "quantitative", "accounting", "criterion", "count", "decisionGates",
         "assumption", "scenarios", "valuationGates"} \subseteq DOMAIN chain
    BY DEF RunC04Chain
  <1> QED
    BY <1>1, <1>2, <1>3, <1>4, <1>5, <1>6

(* V0.2: without history there is nothing to verify but the label itself,  *)
(* and the accounting question stays open.                                 *)
LEMMA OneReportV02 ==
  ASSUME NEW rep, Complete(rep), rep.adjustedYoy \in Int, BridgeCloses(rep), NEW label
  PROVE  LET chain == RunC04ChainK07B(rep, label, <<>>, Nil, AllPending, NoInputs) IN
         /\ {"status", "criterion", "decisionGates", "assumption", "scenarios", "valuationGates"}
              \subseteq DOMAIN chain
         /\ chain.status = "ready"
         /\ {"EG-01", "EG-02"} \subseteq chain.decisionGates
         /\ chain.criterion = IF CurrentVerified(rep, label) /\ rep.adjustedYoy <= 0
                              THEN "watch" ELSE "unknown"
  <1> DEFINE v01 == RunC04Chain(rep, <<>>, Nil, AllPending, NoInputs)
             chain == RunC04ChainK07B(rep, label, <<>>, Nil, AllPending, NoInputs)
             context == V01Context(rep, label, <<>>, Nil, AllPending)
             quantitative == IF CurrentVerified(rep, label) THEN v01.quantitative ELSE "unknown"
  <1>1. rep.adjustedYoy # Nil
    BY UpdateAssumption
  <1>2. Recognized(Nil, AllPending) = Nil /\ Accounting(Nil) = "unknown"
    <2>1. Nil # "recurring" /\ Nil # "non-recurring"
      BY UpdateAssumption
    <2>2. Recognized(Nil, AllPending) = Nil
      BY DEF Recognized
    <2> QED
      BY <2>1, <2>2 DEF Accounting
  <1>3. context.prior = <<>> /\ context.recurring = Nil
    BY <1>2 DEF V01Context, SequenceStatus
  <1>4. v01.status = "ready"
    BY <1>1, OneReportV01
  <1>5. chain = [v01 EXCEPT
          !.quantitative = quantitative,
          !.accounting = "unknown",
          !.criterion = IF quantitative \in {"triggered", "watch"} THEN quantitative ELSE "unknown",
          !.count = IF v01.status # "blocked" /\ CurrentVerified(rep, label) THEN @ ELSE 0]
    BY <1>2, <1>3, <1>4, Zenon DEF RunC04ChainK07B
  <1> HIDE DEF v01, chain
  <1>6. /\ DOMAIN chain = DOMAIN v01
        /\ chain.status = v01.status /\ chain.decisionGates = v01.decisionGates
    BY <1>5
  <1>7. {"status", "quantitative", "accounting", "criterion", "count", "decisionGates",
         "assumption", "scenarios", "valuationGates"} \subseteq DOMAIN v01
    BY <1>1, OneReportV01 DEF v01
  <1>8. chain.criterion = IF quantitative \in {"triggered", "watch"} THEN quantitative ELSE "unknown"
    BY <1>5, <1>7
  <1>9. v01.quantitative = IF rep.adjustedYoy <= 0 THEN "watch" ELSE "clear"
    BY <1>1, OneReportV01 DEF v01
  <1>10. {"EG-01", "EG-02"} \subseteq v01.decisionGates
    BY <1>1, OneReportV01 DEF v01
  <1>11. chain.criterion = IF CurrentVerified(rep, label) /\ rep.adjustedYoy <= 0
                           THEN "watch" ELSE "unknown"
    BY <1>8, <1>9
  <1> QED
    BY <1>4, <1>6, <1>7, <1>10, <1>11 DEF chain

(* V0.3: no opinion leaves every gate open.                                *)
LEMMA OneReportV03 ==
  ASSUME NEW rep, Complete(rep), rep.adjustedYoy \in Int, NEW label
  PROVE  LET chain == RunC04ChainReviewed(rep, label, <<>>, Nil, AllPending, NoInputs) IN
         BridgeCloses(rep) =>
           /\ chain.status = "ready"
           /\ {"EG-01", "EG-02"} \subseteq chain.decisionGates
           /\ chain.criterion = IF CurrentVerified(rep, label) /\ rep.adjustedYoy <= 0
                                THEN "watch" ELSE "unknown"
  <1> SUFFICES ASSUME BridgeCloses(rep)
      PROVE  LET chain == RunC04ChainReviewed(rep, label, <<>>, Nil, AllPending, NoInputs) IN
             /\ chain.status = "ready"
             /\ {"EG-01", "EG-02"} \subseteq chain.decisionGates
             /\ chain.criterion = IF CurrentVerified(rep, label) /\ rep.adjustedYoy <= 0
                                  THEN "watch" ELSE "unknown"
    OBVIOUS
  <1> DEFINE v02 == RunC04ChainK07B(rep, label, <<>>, Nil, AllPending, NoInputs)
             chain == RunC04ChainReviewed(rep, label, <<>>, Nil, AllPending, NoInputs)
  <1>1. EffectiveGates(Nil, AllPending) = AllPending
    BY DEF EffectiveGates, AllPending, FromHuman
  <1>2. ~FromHuman(Nil)
    BY DEF FromHuman
  <1>3. chain = [v02 EXCEPT !.assumption = "pending-review", !.scenarios = FALSE,
                            !.valuationGates = @ \cup {"UNVERIFIED"}]
    BY <1>1, <1>2, Zenon DEF RunC04ChainReviewed
  <1> HIDE DEF v02, chain
  <1>4. /\ chain.status = v02.status /\ chain.decisionGates = v02.decisionGates
        /\ chain.criterion = v02.criterion
    BY <1>3
  <1> QED
    BY <1>4, OneReportV02 DEF v02, chain

(* A bridge that does not close blocks every generation.                   *)
LEMMA OpenBridgeBlocks ==
  ASSUME NEW rep, Complete(rep), rep.adjustedYoy \in Int, ~BridgeCloses(rep), NEW label
  PROVE  RunC04ChainReviewed(rep, label, <<>>, Nil, AllPending, NoInputs).status = "blocked"
  <1> DEFINE v01 == RunC04Chain(rep, <<>>, Nil, AllPending, NoInputs)
             v02 == RunC04ChainK07B(rep, label, <<>>, Nil, AllPending, NoInputs)
             chain == RunC04ChainReviewed(rep, label, <<>>, Nil, AllPending, NoInputs)
             context == V01Context(rep, label, <<>>, Nil, AllPending)
             later == v02
  <1>1. rep.adjustedYoy # Nil
    BY UpdateAssumption
  <1>2. v01.status = "blocked"
    BY <1>1, OneReportV01
  <1>3. context.prior = <<>> /\ context.recurring = Nil
    BY DEF V01Context, SequenceStatus, Recognized
  <1>4. v02.status = v01.status
    BY <1>3 DEF RunC04ChainK07B
  <1>5. EffectiveGates(Nil, AllPending) = AllPending /\ ~FromHuman(Nil)
    BY DEF EffectiveGates, AllPending, FromHuman
  <1>6. chain = [v02 EXCEPT !.assumption = "pending-review", !.scenarios = FALSE,
                            !.valuationGates = @ \cup {"UNVERIFIED"}]
    BY <1>5, Zenon DEF RunC04ChainReviewed
  <1> HIDE DEF v02, chain
  <1>7. chain.status = v02.status
    BY <1>6
  <1> QED
    BY <1>2, <1>4, <1>7 DEF chain

Candidate == [value : Amounts, status : {"pending", "accepted", "rejected"}]

(* What the review found in order, and what the chain made of it.          *)
LEMMA Reviewing ==
  ASSUME NEW source \in Records, NEW result \in Results, NEW cands,
         \A m \in DOMAIN cands : cands[m] \in Candidate,
         ReviewAndRun(source, result, cands) # Nil
  PROVE  LET chain == ReviewAndRun(source, result, cands)
             growth == result.metrics["adjusted"].disclosed IN
         /\ result.clean
         /\ \A m \in Metrics : MetricPasses(m, result, cands) /\ cands[m].value \in Int
         /\ BridgeCloses(Reviewed(source, result, cands))
         /\ {"EG-01", "EG-02"} \subseteq chain.decisionGates
         /\ chain.criterion = IF Annualizable(result) /\ growth <= 0 THEN "watch" ELSE "unknown"
  <1> DEFINE rep == Reviewed(source, result, cands)
             label == CurrentPeriod(rep)
             chain == RunC04ChainReviewed(rep, label, <<>>, Nil, AllPending, NoInputs)
             growth == result.metrics["adjusted"].disclosed
  <1>1. result.clean /\ \A m \in Metrics : MetricPasses(m, result, cands)
    BY DEF ReviewAndRun
  <1>2. chain.status # "blocked" /\ ReviewAndRun(source, result, cands) = chain
    BY <1>1 DEF ReviewAndRun, NoInputs
  <1>3. \A m \in Metrics : cands[m].value \in Int
    BY <1>1 DEF MetricPasses, Candidate, Amounts
  <1>4. growth \in Int
    <2>1. "adjusted" \in Metrics /\ GrowthReconciles(cands["adjusted"].value, result.metrics["adjusted"])
      BY <1>1 DEF MetricPasses, Metrics
    <2>2. growth # Nil
      BY <2>1 DEF GrowthReconciles
    <2> QED
      BY <2>1, <2>2 DEF Results, Amounts
  <1>5. rep.adjustedYoy = growth /\ Complete(rep)
    <2>1. {"attr", "adjusted", "nonRecurring"} = Metrics
      BY DEF Metrics
    <2>2. cands["attr"].value # Nil /\ cands["adjusted"].value # Nil /\ cands["nonRecurring"].value # Nil
      BY <1>1, <2>1 DEF MetricPasses
    <2> QED
      BY <1>1, <2>2 DEF Reviewed, Complete
  <1>6. BridgeCloses(rep)
    BY <1>2, <1>4, <1>5, OpenBridgeBlocks
  <1>7. CurrentVerified(rep, label) <=> Annualizable(result)
    <2>1. /\ rep.source = source /\ rep.kind = result.kind /\ rep.number = result.number
          /\ Annualizable(rep) <=> Annualizable(result)
      BY DEF Reviewed, Annualizable
    <2>2. ASSUME ~Annualizable(result) PROVE ~CurrentVerified(rep, label)
      BY <2>1, <2>2 DEF CurrentPeriod, CurrentVerified
    <2>3. ASSUME Annualizable(result) PROVE CurrentVerified(rep, label)
      <3>1. label = Period(source, Anker, result.kind, result.number, growth, TRUE)
        BY <1>4, <1>5, <2>1, <2>3, UpdateAssumption DEF CurrentPeriod
      <3>2. label \in Periods
        BY <3>1, <1>4 DEF Period, Periods, Results
      <3>3. label # Nil
        BY <3>2, UpdateAssumption
      <3>4. /\ label.source = source /\ label.company = Anker /\ label.accepted
            /\ label.kind = result.kind /\ label.number = result.number /\ label.yoy = growth
        BY <3>1 DEF Period
      <3> HIDE DEF label, rep
      <3> QED
        BY <3>3, <3>4, <2>1, <1>5 DEF CurrentVerified
    <2> QED
      BY <2>2, <2>3
  <1>8. /\ {"EG-01", "EG-02"} \subseteq chain.decisionGates
        /\ chain.criterion = IF Annualizable(result) /\ growth <= 0 THEN "watch" ELSE "unknown"
    BY <1>4, <1>5, <1>6, <1>7, OneReportV03
  <1> QED
    BY <1>1, <1>2, <1>3, <1>6, <1>8

-----------------------------------------------------------------------------
(* What is taken along by a save, and what becomes of it.                  *)

Materials == [source : Records, result : Results]
Candidacies == UNION {[D -> Candidate] : D \in SUBSET Metrics}

(* There is a candidate for each metric that was read.                     *)
FromReport(cands, result) == DOMAIN cands = {m \in Metrics : result.metrics[m].value # Nil}

(* What is accepted was accepted at the value it still has.                *)
Faithful(cands, approved) ==
  \A m \in DOMAIN cands : cands[m].status = "accepted" => approved[m] = cands[m].value

Captured ==
  {save \in [workspace : {"research", "regression"}, material : Materials, candidates : Candidacies,
             named : BOOLEAN, endorsed : [Metrics -> Amounts]] :
     /\ save.workspace = Workspace(save.material.source)
     /\ FromReport(save.candidates, save.material.result)
     /\ Faithful(save.candidates, save.endorsed)}

Snapshots == {Snapshot(save) : save \in Captured}

LEMMA CandidaciesRead ==
  ASSUME NEW cands \in Candidacies
  PROVE  DOMAIN cands \subseteq Metrics /\ cands \in [DOMAIN cands -> Candidate]
  BY DEF Candidacies

LEMMA CandidaciesMade ==
  ASSUME NEW D \in SUBSET Metrics, NEW cands \in [D -> Candidate]
  PROVE  cands \in Candidacies
  BY DEF Candidacies

LEMMA Cancel ==
  ASSUME NEW s \in Int, s > 0, NEW a \in Int, NEW b \in Int, s * a < s * b
  PROVE  a < b
  <1>1. SUFFICES ASSUME a >= b PROVE FALSE
    OBVIOUS
  <1>2. PICK k \in Nat : a = b + k
    <2>1. a - b \in Nat /\ a = b + (a - b)
      BY <1>1
    <2> QED
      BY <2>1
  <1>3. s * a = s * b + s * k /\ s * k >= 0
    BY <1>2
  <1> QED
    BY <1>3

(* Rounding down keeps a growth within the tolerance.                      *)
LEMMA Rounded ==
  ASSUME NEW s \in Int, s > 0, NEW n \in Int, NEW d \in Int, n - d * s \in (-5 * s)..(5 * s)
  PROVE  (n \div s) - d \in -5..5
  <1> DEFINE q == n \div s
  <1>1. q \in Int /\ s * q <= n /\ n < s * (q + 1)
    OBVIOUS
  <1> HIDE DEF q
  <1>2. s * q < s * (d + 6)
    BY <1>1
  <1>3. s * (d - 5) < s * (q + 1)
    BY <1>1
  <1>4. q < d + 6 /\ d - 5 < q + 1
    BY <1>1, <1>2, <1>3, Cancel
  <1>5. q - d \in -5..5
    BY <1>1, <1>4
  <1> QED
    BY <1>5 DEF q

(* A snapshot that is made at all is well reviewed and of use.             *)
LEMMA SnapshotIsReviewed ==
  ASSUME NEW save \in Captured, Snapshot(save) # Nil
  PROVE  LET version == Snapshot(save) IN
         /\ WellReviewed(version)
         /\ save.workspace = Workspace(version.source)
         /\ BuildMemoContext(version, save.workspace)
         /\ save.workspace = "research" /\ version.result.metrics["nonRecurring"].comparison # 0
              => ResolveQuestionEvidence(version)
  <1> DEFINE source == save.material.source
             result == save.material.result
             cands == save.candidates
             chain == ReviewAndRun(source, result, cands)
             version == Snapshot(save)
             reported == result.metrics["adjusted"].disclosed
  <1>1. /\ save.workspace \in {"research", "regression"} /\ save.workspace = Workspace(source)
        /\ source \in Records /\ result \in Results /\ cands \in Candidacies
        /\ Faithful(cands, save.endorsed) /\ FromReport(cands, result)
    BY DEF Captured, Materials
  <1>2. /\ chain # Nil /\ save.named
        /\ version = [source |-> source, result |-> result, evidence |-> cands, reviewed |-> save.named,
                      endorsed |-> save.endorsed, signal |-> chain.signal,
                      criterion |-> chain.criterion, blockedGates |-> chain.decisionGates]
    BY DEF Snapshot
  <1> HIDE DEF version, chain
  <1>3. /\ version.source = source /\ version.result = result /\ version.evidence = cands
        /\ version.reviewed /\ version.endorsed = save.endorsed /\ version.signal = chain.signal
        /\ version.criterion = chain.criterion /\ version.blockedGates = chain.decisionGates
    BY <1>2
  <1>4. DOMAIN cands \subseteq Metrics /\ \A m \in DOMAIN cands : cands[m] \in Candidate
    BY <1>1, CandidaciesRead
  <1>5. /\ result.clean
        /\ \A m \in Metrics : MetricPasses(m, result, cands) /\ cands[m].value \in Int
        /\ BridgeCloses(Reviewed(source, result, cands))
        /\ {"EG-01", "EG-02"} \subseteq chain.decisionGates
        /\ chain.criterion = IF Annualizable(result) /\ reported <= 0 THEN "watch" ELSE "unknown"
    BY <1>1, <1>2, <1>4, Reviewing DEF chain
  <1> HIDE DEF source, result, cands, reported
  <1>6. DOMAIN cands = Metrics
    BY <1>4, <1>5 DEF MetricPasses
  <1>7. ASSUME NEW m \in Metrics
        PROVE  cands[m] = [value |-> save.endorsed[m], status |-> "accepted"]
    BY <1>1, <1>4, <1>5, <1>6 DEF MetricPasses, Faithful, Candidate
  <1>8. ASSUME NEW m \in Metrics \ {"nonRecurring"}
        PROVE  LET read == result.metrics[m]
                   base == IF read.comparison < 0 THEN -read.comparison ELSE read.comparison IN
               /\ read.value \in Amounts
               /\ read.comparison \in Int /\ read.disclosed \in Int /\ read.comparison # 0
               /\ (1000 * (cands[m].value - read.comparison)) \div base - read.disclosed \in -5..5
    <2> DEFINE read == result.metrics[m]
               base == IF read.comparison < 0 THEN -read.comparison ELSE read.comparison
               excess == 1000 * (cands[m].value - read.comparison)
    <2>1. cands[m].value \in Int /\ GrowthReconciles(cands[m].value, read)
      BY <1>5 DEF MetricPasses
    <2>2. read.value \in Amounts /\ read.comparison \in Amounts /\ read.disclosed \in Amounts
      BY <1>1 DEF Results
    <2>3. read.comparison \in Int /\ read.disclosed \in Int /\ read.comparison # 0
      BY <2>1, <2>2 DEF GrowthReconciles, Amounts
    <2>4. excess - read.disclosed * base \in (-5 * base)..(5 * base)
      BY <2>1 DEF GrowthReconciles
    <2>5. base \in Int /\ base > 0 /\ excess \in Int
      BY <2>1, <2>3
    <2> HIDE DEF excess, base
    <2>6. (excess \div base) - read.disclosed \in -5..5
      BY <2>3, <2>4, <2>5, Rounded
    <2> QED
      BY <2>2, <2>3, <2>6 DEF excess, base
  <1>9. WellReviewed(version)
    <2>1. \A m \in Metrics \ {"nonRecurring"} :
             LET read == version.result.metrics[m]
                 base == IF read.comparison < 0 THEN -read.comparison ELSE read.comparison
                 growth == (1000 * (version.evidence[m].value - read.comparison)) \div base
             IN growth - read.disclosed \in -5..5
      BY <1>3, <1>8
    <2>2. version.evidence["attr"].value - version.evidence["nonRecurring"].value
            - version.evidence["adjusted"].value \in -2..2
      BY <1>3, <1>5 DEF BridgeCloses, Reviewed
    <2>3. \A m \in Metrics : version.evidence[m] = [value |-> version.endorsed[m], status |-> "accepted"]
      BY <1>3, <1>7
    <2> QED
      BY <1>3, <1>5, <1>6, <2>1, <2>2, <2>3, SMTT(20) DEF WellReviewed, reported
  <1>10. BuildMemoContext(version, save.workspace)
    <2>1. ASSUME NEW m \in Metrics
          PROVE  LET read == version.result.metrics[m] IN
                 read.value # Nil /\ (m # "nonRecurring" => Nil \notin {read.comparison, read.disclosed})
      <3>1. result.metrics[m].value # Nil
        BY <1>1, <1>6 DEF FromReport
      <3>2. m # "nonRecurring" =>
              result.metrics[m].comparison \in Int /\ result.metrics[m].disclosed \in Int
        BY <1>8
      <3> QED
        BY <1>3, <3>1, <3>2, UpdateAssumption
    <2>2. ASSUME NEW m \in Metrics PROVE version.evidence[m].status = "accepted"
      <3>1. cands[m].status = "accepted"
        BY <1>5 DEF MetricPasses
      <3> QED
        BY <1>3, <3>1
    <2> QED
      BY <1>1, <1>2, <1>3, <1>5, <1>6, <2>1, <2>2 DEF BuildMemoContext, chain
  <1>11. save.workspace = "research" /\ version.result.metrics["nonRecurring"].comparison # 0
           => ResolveQuestionEvidence(version)
    <2>1. ASSUME NEW m \in Metrics, version.result.metrics["nonRecurring"].comparison # 0
          PROVE  version.evidence[m].value # Nil /\ version.result.metrics[m].comparison # 0
      <3>1. version.evidence[m].value \in Int
        BY <1>3, <1>5
      <3>2. m # "nonRecurring" => result.metrics[m].comparison # 0
        BY <1>8
      <3> QED
        BY <1>3, <2>1, <3>1, <3>2, UpdateAssumption
    <2> QED
      BY <1>10, <2>1 DEF ResolveQuestionEvidence
  <1> QED
    BY <1>1, <1>3, <1>9, <1>10, <1>11 DEF version

(* The page and its saves: whatever the page shows, what it would take     *)
(* along is of the shape above, and so is what waits and what was stored.  *)
PageInv ==
  /\ selected \in Records /\ named \in BOOLEAN /\ endorsed \in [Metrics -> Amounts]
  /\ parsing # Nil => parsing.file \in Files /\ parsing.selected \in Records
  /\ candidates \in Candidacies /\ Faithful(candidates, endorsed)
  /\ material # Nil => material \in Materials /\ FromReport(candidates, material.result)

SavesInv ==
  /\ saving \in Seq(Captured)
  /\ library \in [{"research", "regression"} -> Seq(Snapshots)]

(* Freshly extracted candidates await review.                              *)
LEMMA LoadedMaterial ==
  ASSUME NEW source \in Records, NEW result \in Results, Loaded(source, result)
  PROVE  /\ material' \in Materials /\ candidates' \in Candidacies
         /\ FromReport(candidates', material'.result) /\ Faithful(candidates', endorsed')
         /\ endorsed' \in [Metrics -> Amounts]
  <1> DEFINE D == {k \in Metrics : result.metrics[k].value # Nil}
  <1>1. material' = [source |-> source, result |-> result]
    BY DEF Loaded
  <1>2. candidates' = [m \in D |-> [value |-> result.metrics[m].value, status |-> "pending"]]
    BY DEF Loaded, Candidates
  <1>3. \A m \in D : result.metrics[m].value \in Amounts
    BY DEF Results
  <1>4. candidates' \in [D -> Candidate] /\ \A m \in D : candidates'[m].status = "pending"
    BY <1>2, <1>3 DEF Candidate
  <1>5. candidates' \in Candidacies
    BY <1>4, CandidaciesMade
  <1>6. endorsed' \in [Metrics -> Amounts]
    BY DEF Loaded, Amounts
  <1> QED
    BY <1>1, <1>4, <1>5, <1>6 DEF Materials, FromReport, Faithful

(* A review of one metric keeps the page in order.                         *)
LEMMA Touched ==
  ASSUME NEW cands \in Candidacies, NEW approved \in [Metrics -> Amounts], Faithful(cands, approved),
         NEW metric \in DOMAIN cands, NEW c \in Candidate, NEW value \in Amounts,
         c.status = "accepted" => value = c.value
  PROVE  /\ [cands EXCEPT ![metric] = c] \in Candidacies
         /\ DOMAIN [cands EXCEPT ![metric] = c] = DOMAIN cands
         /\ Faithful([cands EXCEPT ![metric] = c], [approved EXCEPT ![metric] = value])
         /\ [approved EXCEPT ![metric] = value] \in [Metrics -> Amounts]
  <1>1. DOMAIN cands \subseteq Metrics /\ cands \in [DOMAIN cands -> Candidate]
    BY CandidaciesRead
  <1>2. [cands EXCEPT ![metric] = c] \in [DOMAIN cands -> Candidate]
    BY <1>1
  <1>3. [cands EXCEPT ![metric] = c] \in Candidacies
    BY <1>1, <1>2, CandidaciesMade
  <1> QED
    BY <1>1, <1>2, <1>3 DEF Faithful

(* Nothing to review is well formed too.                                   *)
LEMMA NoCandidates == <<>> \in Candidacies /\ \A approved : Faithful(<<>>, approved)
  <1>1. DOMAIN <<>> = {} /\ <<>> \in [{} -> Candidate]
    OBVIOUS
  <1> QED
    BY <1>1, CandidaciesMade DEF Faithful

LEMMA PageInit == Init => PageInv /\ SavesInv
  <1> SUFFICES ASSUME Init PROVE PageInv /\ SavesInv
    OBVIOUS
  <1>1. PageInv
    BY NoCandidates DEF Init, PageInv, Records, Amounts
  <1>2. <<>> \in Seq(Captured) /\ <<>> \in Seq(Snapshots)
    OBVIOUS
  <1> QED
    BY <1>1, <1>2 DEF Init, SavesInv

(* What is shown stays in order, step by step.                             *)
LEMMA PageStep == PageInv /\ [Next]_vars => PageInv'
  <1> SUFFICES ASSUME PageInv, [Next]_vars PROVE PageInv'
    OBVIOUS
  <1>a. Records = {Regression, Development} /\ UpdateAssumption
    BY UpdateAssumption DEF Records
  <1>1. CASE LoadSample
    <2>1. Development \in Records /\ Sample \in Results /\ Loaded(Development, Sample)
      BY <1>1, <1>a DEF LoadSample
    <2> QED
      BY <1>1, <2>1, LoadedMaterial DEF LoadSample, PageInv
  <1>2. ASSUME NEW file \in Files, ChooseFile(file) PROVE PageInv'
    BY <1>2, NoCandidates DEF ChooseFile, ProcessFile, Cleared, PageInv, Amounts
  <1>3. CASE Extracted
    <2>1. /\ parsing.file.source \in Records /\ parsing.file.result \in Results
          /\ Loaded(parsing.file.source, parsing.file.result)
      BY <1>3, <1>a DEF Extracted, PageInv
    <2> QED
      BY <1>3, <2>1, LoadedMaterial DEF Extracted, PageInv
  <1>4. CASE ExtractionFailed \/ ExtractionRefused
    BY <1>4 DEF ExtractionFailed, ExtractionRefused, SetAside, PageInv
  <1>5. ASSUME NEW source \in Records, SelectSource(source) PROVE PageInv'
    BY <1>5, NoCandidates DEF SelectSource, Cleared, PageInv, Amounts
  <1>6. CASE StartOver
    BY <1>6, NoCandidates DEF StartOver, Cleared, PageInv, Amounts
  <1>7. ASSUME NEW m \in Metrics, NEW value \in EditsOf(m), Edit(m, value) PROVE PageInv'
    <2> DEFINE c == [value |-> value, status |-> "pending"]
               approved == [endorsed EXCEPT ![m] = endorsed[m]]
    <2>1. c \in Candidate /\ c.status # "accepted"
      BY <1>a DEF Candidate
    <2>2. endorsed \in [Metrics -> Amounts] /\ endorsed[m] \in Amounts /\ endorsed = approved
      BY DEF PageInv
    <2>3. m \in DOMAIN candidates /\ candidates' = [candidates EXCEPT ![m] = c]
      BY <1>7 DEF Edit
    <2> HIDE DEF c
    <2>4. /\ candidates' \in Candidacies /\ DOMAIN candidates' = DOMAIN candidates
          /\ Faithful(candidates', approved)
      BY <2>1, <2>2, <2>3, Touched DEF PageInv
    <2> HIDE DEF approved
    <2>5. Faithful(candidates', endorsed)
      BY <2>2, <2>4
    <2> QED
      BY <1>7, <2>4, <2>5 DEF Edit, PageInv, FromReport
  <1>8. ASSUME NEW m \in Metrics, Accept(m) PROVE PageInv'
    <2>1. m \in DOMAIN candidates /\ candidates[m] \in Candidate
      BY <1>8, CandidaciesRead DEF Accept, PageInv
    <2> DEFINE c == [candidates[m] EXCEPT !.status = "accepted"]
    <2>2. c \in Candidate /\ c.status = "accepted" /\ c.value = candidates[m].value
          /\ c.value \in Amounts /\ Nil \in Amounts
      BY <2>1 DEF Candidate, Amounts
    <2>3. /\ candidates' = [candidates EXCEPT ![m] = c]
          /\ endorsed' = [endorsed EXCEPT ![m] = c.value]
      BY <1>8, <2>2 DEF Accept
    <2> HIDE DEF c
    <2>4. /\ candidates' \in Candidacies /\ DOMAIN candidates' = DOMAIN candidates
          /\ Faithful(candidates', endorsed') /\ endorsed' \in [Metrics -> Amounts]
      BY <2>1, <2>2, <2>3, Touched DEF PageInv
    <2> QED
      BY <1>8, <2>4 DEF Accept, PageInv, FromReport
  <1>9. ASSUME NEW m \in Metrics, Reject(m) PROVE PageInv'
    <2>1. m \in DOMAIN candidates /\ candidates[m] \in Candidate
      BY <1>9, CandidaciesRead DEF Reject, PageInv
    <2> DEFINE c == [candidates[m] EXCEPT !.status = "rejected"]
    <2>2. c \in Candidate /\ c.status = "rejected" /\ c.value = candidates[m].value
          /\ c.value \in Amounts /\ Nil \in Amounts
      BY <2>1 DEF Candidate, Amounts
    <2>3. /\ candidates' = [candidates EXCEPT ![m] = c]
          /\ endorsed' = [endorsed EXCEPT ![m] = Nil]
      BY <1>9, <2>2 DEF Reject
    <2> HIDE DEF c
    <2>4. /\ candidates' \in Candidacies /\ DOMAIN candidates' = DOMAIN candidates
          /\ Faithful(candidates', endorsed') /\ endorsed' \in [Metrics -> Amounts]
      BY <2>1, <2>2, <2>3, Touched DEF PageInv
    <2> QED
      BY <1>9, <2>4 DEF Reject, PageInv, FromReport
  <1>10. CASE Preview \/ BackToReview
    BY <1>10 DEF Preview, BackToReview, PageInv
  <1>11. ASSUME NEW filled \in BOOLEAN, SetReviewer(filled) PROVE PageInv'
    BY <1>11 DEF SetReviewer, PageInv
  <1>12. CASE Save \/ Saved \/ SaveFailed
    BY <1>12 DEF Save, Saved, SaveFailed, PageInv
  <1>13. CASE UNCHANGED vars
    BY <1>13 DEF vars, PageInv
  <1> QED
    BY <1>1, <1>2, <1>3, <1>4, <1>5, <1>6, <1>7, <1>8, <1>9, <1>10, <1>11, <1>12, <1>13 DEF Next

(* What a save takes along is captured as the page has it.                 *)
LEMMA Capture ==
  ASSUME PageInv, MaterialMatchesSelection, material # Nil
  PROVE  [workspace |-> Workspace(selected), material |-> material, candidates |-> candidates,
          named |-> named, endorsed |-> endorsed] \in Captured
  <1>1. Workspace(selected) \in {"research", "regression"} /\ selected = material.source
    BY DEF Workspace, MaterialMatchesSelection
  <1> QED
    BY <1>1 DEF PageInv, Captured

(* The lock is granted to the first save that waits.                       *)
LEMMA Granted ==
  ASSUME SavesInv, Saved
  PROVE  \E save \in Captured :
           /\ Snapshot(save) # Nil /\ save.workspace \in DOMAIN library
           /\ library' = [library EXCEPT ![save.workspace] = Append(@, Snapshot(save))]
           /\ saving' \in Seq(Captured)
  <1>1. Head(saving) \in Captured /\ Tail(saving) \in Seq(Captured)
    BY DEF Saved, SavesInv
  <1>2. Head(saving).workspace \in {"research", "regression"}
    BY <1>1 DEF Captured
  <1>3. /\ Snapshot(Head(saving)) # Nil
        /\ library' = [library EXCEPT ![Head(saving).workspace] = Append(@, Snapshot(Head(saving)))]
    BY DEF Saved
  <1>4. DOMAIN library = {"research", "regression"} /\ saving' = Tail(saving)
    BY DEF Saved, SavesInv
  <1> QED
    BY <1>1, <1>2, <1>3, <1>4

LEMMA SavesStep == PageInv /\ MaterialMatchesSelection /\ SavesInv /\ [Next]_vars => SavesInv'
  <1> SUFFICES ASSUME PageInv, MaterialMatchesSelection, SavesInv, [Next]_vars PROVE SavesInv'
    OBVIOUS
  <1>1. CASE UNCHANGED <<saving, library>>
    BY <1>1 DEF SavesInv
  <1>2. CASE Save
    <2>1. material # Nil
      BY <1>2 DEF Save, CanPromote
    <2> DEFINE save == [workspace |-> Workspace(selected), material |-> material, candidates |-> candidates,
                        named |-> named, endorsed |-> endorsed]
    <2>2. save \in Captured
      BY <2>1, Capture
    <2>3. saving' = Append(saving, save) /\ library' = library
      BY <1>2 DEF Save
    <2> HIDE DEF save
    <2> QED
      BY <2>2, <2>3 DEF SavesInv
  <1>3. CASE Saved
    <2>1. PICK save \in Captured :
            /\ Snapshot(save) # Nil /\ save.workspace \in DOMAIN library
            /\ library' = [library EXCEPT ![save.workspace] = Append(@, Snapshot(save))]
            /\ saving' \in Seq(Captured)
      BY <1>3, Granted
    <2>2. Snapshot(save) \in Snapshots
      BY DEF Snapshots
    <2> QED
      BY <2>1, <2>2 DEF SavesInv
  <1>4. CASE SaveFailed
    BY <1>4 DEF SaveFailed, SavesInv
  <1> QED
    BY <1>1, <1>2, <1>3, <1>4
    DEF Next, vars, LoadSample, ChooseFile, ProcessFile, Extracted, ExtractionFailed, ExtractionRefused,
        SetAside, SelectSource, StartOver, Edit, Accept, Reject, Preview, BackToReview, SetReviewer

(* A library changes when a lock is granted, and by one snapshot.          *)
LEMMA OnlySavedWrites ==
  ASSUME [Next]_vars, library' # library
  PROVE  Saved
  BY DEF Next, vars, LoadSample, ChooseFile, ProcessFile, Extracted, ExtractionFailed, ExtractionRefused,
         SetAside, SelectSource, StartOver, Edit, Accept, Reject, Preview, BackToReview, SetReviewer, Save, SaveFailed

LEMMA PageSettled == Spec => [](PageInv /\ SavesInv /\ SelectionInv)
  <1>1. SelectionInv => MaterialMatchesSelection
    BY DEF SelectionInv
  <1> QED
    BY <1>1, PageInit, SelectionInit, PageStep, SavesStep, SelectionStep, PTL DEF Spec

(* Whatever is edited, selected or read while saves wait for the lock, and *)
(* whatever numbers a report contains, a library gets only versions whose  *)
(* values a person accepted, that reconcile, that belong to it, and that   *)
(* memos and questions can use (saveVersion, createResearchSnapshot).      *)
THEOREM LibrariesAreReviewed == Spec => LibraryIsReviewed
  <1>1. ASSUME SavesInv, [Next]_vars, NEW w \in DOMAIN library, library'[w] # library[w]
        PROVE  LET version == Last(library'[w]) IN
               /\ library'[w] = Append(library[w], version)
               /\ WellReviewed(version)
               /\ w = Workspace(version.source)
               /\ BuildMemoContext(version, w)
               /\ w = "research" /\ version.result.metrics["nonRecurring"].comparison # 0
                    => ResolveQuestionEvidence(version)
    <2>1. Saved
      BY <1>1, OnlySavedWrites
    <2>2. PICK save \in Captured :
            /\ Snapshot(save) # Nil /\ save.workspace \in DOMAIN library
            /\ library' = [library EXCEPT ![save.workspace] = Append(@, Snapshot(save))]
      BY <1>1, <2>1, Granted
    <2> DEFINE version == Snapshot(save)
    <2>3. w = save.workspace /\ library'[w] = Append(library[w], version)
      BY <1>1, <2>2
    <2>4. library[w] \in Seq(Snapshots) /\ version \in Snapshots
      BY <1>1 DEF SavesInv, Snapshots
    <2> HIDE DEF version
    <2>5. Last(library'[w]) = version
      BY <2>3, <2>4 DEF Last
    <2>6. /\ WellReviewed(version)
          /\ w = Workspace(version.source)
          /\ BuildMemoContext(version, w)
          /\ w = "research" /\ version.result.metrics["nonRecurring"].comparison # 0
               => ResolveQuestionEvidence(version)
      BY <2>2, <2>3, SnapshotIsReviewed DEF version
    <2> QED
      BY <2>3, <2>5, <2>6
  <1>2. SavesInv /\ [Next]_vars =>
          [\A w \in DOMAIN library : library'[w] # library[w] =>
             LET version == Last(library'[w]) IN
             /\ library'[w] = Append(library[w], version)
             /\ WellReviewed(version)
             /\ w = Workspace(version.source)
             /\ BuildMemoContext(version, w)
             /\ w = "research" /\ version.result.metrics["nonRecurring"].comparison # 0
                  => ResolveQuestionEvidence(version)]_vars
    BY <1>1
  <1> QED
    BY <1>2, PageSettled, PTL DEF Spec, LibraryIsReviewed

-----------------------------------------------------------------------------
(* The history of periods.  What the loop over prior periods finds out is  *)
(* shown for each of them in turn: there would be a first one otherwise at *)
(* which it goes wrong.                                                    *)

(* A set of numbers has a least one.                                       *)
LEMMA Least ==
  ASSUME NEW S \in SUBSET Nat, S # {}
  PROVE  \E n \in S : \A m \in S : n <= m
<1>1. IsWellFoundedOn(OpToRel(<, Nat), Nat)
  BY NatLessThanWellFounded, Zenon
<1>2. PICK n \in S : \A m \in S : <<m, n>> \notin OpToRel(<, Nat)
  BY <1>1, WFMin, Zenon
<1>3. \A m \in S : ~ (m < n)
  BY <1>2 DEF OpToRel
<1> QED BY <1>3

(* The states of the loop over prior periods, one after the other.         *)
ScanUpTo(f, m, rows, label) ==
  f = [i \in 0..m |-> IF i = 0 THEN [unbroken |-> TRUE, last |-> Nil, seen |-> {}]
                      ELSE ScanRow(f[i - 1], rows[i], label)]

LEMMA ScanUnfolds ==
  ASSUME NEW rows, Len(rows) \in Nat, NEW label
  PROVE  \E f : ScanUpTo(f, Len(rows), rows, label) /\ Scan(rows, label) = f[Len(rows)]
<1> DEFINE n == Len(rows)
           Bad == {m \in 0..n : ~ \E f : ScanUpTo(f, m, rows, label)}
           start == [unbroken |-> TRUE, last |-> Nil, seen |-> {}]
<1>1. Bad = {}
  <2> SUFFICES ASSUME Bad # {} PROVE FALSE
    OBVIOUS
  <2>1. Bad \in SUBSET Nat
    OBVIOUS
  <2> HIDE DEF Bad
  <2>2. PICK m \in Bad : \A k \in Bad : m <= k
    BY <2>1, Least
  <2>3. m \in 0..n /\ ~ \E f : ScanUpTo(f, m, rows, label)
    BY DEF Bad
  <2>4. CASE m = 0
    <3> DEFINE f == [i \in 0..0 |-> start]
    <3>1. ScanUpTo(f, 0, rows, label)
      BY DEF ScanUpTo
    <3> QED BY <2>3, <2>4, <3>1
  <2>5. CASE m # 0
    <3>1. m \in 1..n /\ m - 1 \in 0..n /\ m - 1 \notin Bad
      BY <2>1, <2>2, <2>3, <2>5
    <3>2. PICK g : ScanUpTo(g, m - 1, rows, label)
      BY <3>1 DEF Bad
    <3> DEFINE f == [i \in 0..m |-> IF i = m THEN ScanRow(g[m - 1], rows[m], label) ELSE g[i]]
    <3>3. /\ DOMAIN f = 0..m /\ f[m] = ScanRow(g[m - 1], rows[m], label)
          /\ \A i \in 0..m - 1 : f[i] = g[i]
      BY <3>1
    <3>4. f = [i \in 0..m |-> f[i]]
      OBVIOUS
    <3> HIDE DEF f
    <3>5. ASSUME NEW i \in 0..m
          PROVE  f[i] = IF i = 0 THEN start ELSE ScanRow(f[i - 1], rows[i], label)
      <4>1. CASE i = m
        BY <2>5, <3>1, <3>3, <4>1
      <4>2. CASE i # m
        <5>1. i \in 0..m - 1 /\ (i # 0 => i - 1 \in 0..m - 1)
          BY <3>1, <4>2
        <5>2. g[i] = IF i = 0 THEN start ELSE ScanRow(g[i - 1], rows[i], label)
          BY <3>2, <5>1 DEF ScanUpTo
        <5> QED BY <3>3, <5>1, <5>2
      <4> QED BY <4>1, <4>2
    <3>6. ScanUpTo(f, m, rows, label)
      BY <3>4, <3>5, Zenon DEF ScanUpTo
    <3> QED BY <2>3, <3>6
  <2> QED BY <2>4, <2>5
<1>2. \E f : ScanUpTo(f, n, rows, label)
  BY <1>1
<1> DEFINE scan[i \in 0..n] == IF i = 0 THEN start ELSE ScanRow(scan[i - 1], rows[i], label)
<1>3. ScanUpTo(scan, n, rows, label)
  BY <1>2 DEF scan, ScanUpTo
<1>4. Scan(rows, label) = scan[n]
  BY DEF Scan, scan
<1> QED BY <1>3, <1>4

(* The first n rows are periods in a row, up to the last of them.          *)
Chained(rows, label, n) ==
  \A j \in 1..n :
    /\ rows[j] # Nil /\ rows[j].accepted
    /\ rows[j].company = label.company /\ rows[j].kind = label.kind
    /\ rows[j].number = rows[n].number - (n - j)
    /\ rows[j].source # label.source
    /\ \A k \in 1..n : k # j => rows[k].source # rows[j].source

ScanHolds(scan, rows, label, n) ==
  /\ scan.unbroken <=> Chained(rows, label, n)
  /\ scan.unbroken /\ n > 0 => scan.last = rows[n].number
  /\ scan.unbroken => scan.seen = {rows[k].source : k \in 1..n}

LEMMA OneMore ==
  ASSUME NEW rows \in Seq(Rows), NEW label, NEW i \in 1..Len(rows), NEW scan,
         ScanHolds(scan, rows, label, i - 1), scan.unbroken /\ i = 1 => scan.last = Nil
  PROVE  ScanHolds(ScanRow(scan, rows[i], label), rows, label, i)
<1> DEFINE row == rows[i]
           next == ScanRow(scan, row, label)
<1>0. i \in Nat /\ i > 0 /\ Len(rows) \in Nat /\ \A k \in 1..i : k \in 1..Len(rows) /\ rows[k] \in Rows
  OBVIOUS
<1>1. CASE row = Nil
  BY <1>0, <1>1 DEF ScanRow, ScanHolds, Chained
<1>2. CASE row # Nil
  <2>1. /\ next.unbroken <=> scan.unbroken /\ Continues(scan, row, label)
        /\ row.accepted => next.last = row.number
        /\ next.seen = scan.seen \cup {row.source}
    BY <1>2 DEF ScanRow
  <2>2. \A k \in 1..i : rows[k] # Nil /\ rows[k].accepted => rows[k].number \in Int
    BY <1>0, CasesAssumption
  <2>3. ASSUME scan.unbroken, Continues(scan, row, label)
        PROVE  Chained(rows, label, i)
    <3>1. Chained(rows, label, i - 1) /\ row.accepted /\ row.number \in Int
      BY <1>0, <1>2, <2>2, <2>3 DEF ScanHolds, Continues
    <3>2. i > 1 => rows[i - 1].number \in Int /\ row.number = rows[i - 1].number + 1
      BY <1>0, <2>2, <2>3, <3>1, CasesAssumption DEF ScanHolds, Chained, Continues
    <3>3. \A j \in 1..i - 1 : rows[j].number = row.number - (i - j) /\ rows[j].source # row.source
      <4> TAKE j \in 1..i - 1
      <4>1. rows[j].number = rows[i - 1].number - (i - 1 - j) /\ i > 1
        BY <1>0, <3>1 DEF Chained
      <4>2. row.source \notin scan.seen /\ scan.seen = {rows[k].source : k \in 1..i - 1}
        BY <2>3 DEF ScanHolds, Continues
      <4>3. rows[j].number = row.number - (i - j)
        <5>1. i \in Int /\ j \in Int
          BY <1>0
        <5>2. rows[i - 1].number \in Int /\ row.number = rows[i - 1].number + 1
          BY <3>2, <4>1
        <5>3. \A m \in Int : m - (i - 1 - j) = (m + 1) - (i - j)
          BY <5>1
        <5>4. rows[i - 1].number - (i - 1 - j) = (rows[i - 1].number + 1) - (i - j)
          BY <5>2, <5>3, Zenon
        <5> QED BY <4>1, <5>2, <5>4, Zenon
      <4>4. rows[j].source # row.source
        BY <4>2
      <4> QED BY <4>3, <4>4
    <3> QED BY <1>0, <1>2, <2>3, <3>1, <3>3 DEF Chained, Continues
  <2>4. ASSUME Chained(rows, label, i)
        PROVE  scan.unbroken /\ Continues(scan, row, label)
    <3>1. row.accepted /\ row.number \in Int
      BY <1>0, <2>2, <2>4 DEF Chained
    <3>2. \A j \in 1..i - 1 : rows[j].number = row.number - (i - j)
      BY <1>0, <2>4 DEF Chained
    <3>3. i > 1 => rows[i - 1].number = row.number - 1
      BY <1>0, <3>1, <3>2
    <3>4. Chained(rows, label, i - 1)
      <4> SUFFICES ASSUME NEW j \in 1..i - 1
                   PROVE  rows[j].number = rows[i - 1].number - (i - 1 - j)
        BY <1>0, <2>4 DEF Chained
      <4> QED BY <1>0, <3>1, <3>2, <3>3
    <3>5. scan.unbroken /\ scan.seen = {rows[k].source : k \in 1..i - 1}
      BY <3>4 DEF ScanHolds
    <3>6. scan.last # Nil => row.number = scan.last + 1
      BY <1>0, <3>1, <3>3, <3>5 DEF ScanHolds
    <3>7. row.source \notin scan.seen \cup {label.source}
      <4>1. row.source # label.source /\ \A k \in 1..i - 1 : rows[k].source # row.source
        BY <1>0, <2>4 DEF Chained
      <4> QED BY <3>5, <4>1
    <3>8. row.company = label.company /\ row.kind = label.kind
      BY <1>0, <2>4 DEF Chained
    <3> QED BY <3>1, <3>5, <3>6, <3>7, <3>8 DEF Continues
  <2>5. next.unbroken => next.seen = {rows[k].source : k \in 1..i}
    BY <1>0, <2>1 DEF ScanHolds
  <2>6. next.unbroken => next.last = row.number
    BY <2>1 DEF Continues
  <2> QED BY <2>1, <2>3, <2>4, <2>5, <2>6 DEF ScanHolds
<1> QED BY <1>1, <1>2

(* The loop finds out whether the rows are in a row, and the last of them. *)
LEMMA ScanFinds ==
  ASSUME NEW rows \in Seq(Rows), NEW label
  PROVE  ScanHolds(Scan(rows, label), rows, label, Len(rows))
<1> DEFINE n == Len(rows)
<1>1. n \in Nat
  OBVIOUS
<1>2. PICK f : ScanUpTo(f, n, rows, label) /\ Scan(rows, label) = f[n]
  BY <1>1, ScanUnfolds
<1>3. /\ f[0] = [unbroken |-> TRUE, last |-> Nil, seen |-> {}]
      /\ \A i \in 1..n : f[i] = ScanRow(f[i - 1], rows[i], label)
  <2>1. \A i \in 0..n : f[i] = IF i = 0 THEN [unbroken |-> TRUE, last |-> Nil, seen |-> {}]
                               ELSE ScanRow(f[i - 1], rows[i], label)
    BY <1>2, Zenon DEF ScanUpTo
  <2>2. 0 \in 0..n /\ \A i \in 1..n : i \in 0..n /\ i # 0
    BY <1>1
  <2>3. f[0] = [unbroken |-> TRUE, last |-> Nil, seen |-> {}]
    BY <2>1, <2>2
  <2>4. ASSUME NEW i \in 1..n PROVE f[i] = ScanRow(f[i - 1], rows[i], label)
    BY <2>1, <2>2
  <2> QED BY <2>3, <2>4
<1>4. ScanHolds(f[0], rows, label, 0)
  BY <1>3 DEF ScanHolds, Chained
<1> DEFINE Bad == {i \in 0..n : ~ScanHolds(f[i], rows, label, i)}
<1>5. Bad = {}
  <2> SUFFICES ASSUME Bad # {} PROVE FALSE
    OBVIOUS
  <2>1. Bad \in SUBSET Nat
    OBVIOUS
  <2> HIDE DEF Bad
  <2>2. PICK i \in Bad : \A k \in Bad : i <= k
    BY <2>1, Least
  <2>3. i \in 0..n /\ ~ScanHolds(f[i], rows, label, i)
    BY DEF Bad
  <2>4. i # 0
    BY <1>4, <2>3
  <2>5. i \in 1..n /\ i - 1 \in 0..n /\ i - 1 \notin Bad
    BY <1>1, <2>1, <2>2, <2>3, <2>4
  <2>6. ScanHolds(f[i - 1], rows, label, i - 1)
    BY <2>5 DEF Bad
  <2>7. i = 1 => f[i - 1].last = Nil
    BY <1>3
  <2>8. ScanHolds(ScanRow(f[i - 1], rows[i], label), rows, label, i)
    BY <2>5, <2>6, <2>7, OneMore
  <2> QED BY <1>3, <2>3, <2>5, <2>8
<1> QED BY <1>1, <1>2, <1>5

(* How long growth has been zero or less is 0, 1 or more as the last two   *)
(* values say.                                                             *)
LEMMA Trailing ==
  ASSUME NEW series \in Seq(Int)
  PROVE  LET n == Len(series)
             count == TrailingNonPositiveCount(series) IN
         /\ n = 0 \/ series[n] > 0 => count = 0
         /\ n > 0 /\ series[n] <= 0 =>
              /\ n = 1 \/ series[n - 1] > 0 => count = 1
              /\ n > 1 /\ series[n - 1] <= 0 => count # 0 /\ count # 1
<1> DEFINE n == Len(series)
           T == {i \in DOMAIN series : \A j \in i..n : series[j] <= 0}
<1>1. n \in Nat /\ DOMAIN series = 1..n /\ \A i \in 1..n : series[i] \in Int
  OBVIOUS
<1>2. T \subseteq 1..n /\ IsFiniteSet(T)
  <2>1. IsFiniteSet(1..n)
    BY <1>1, FS_Interval
  <2>2. T \in SUBSET (1..n)
    BY <1>1
  <2> QED BY <2>1, <2>2, FS_Subset
<1>3. TrailingNonPositiveCount(series) = Cardinality(T)
  BY DEF TrailingNonPositiveCount
<1>4. \A i \in T : n > 0 /\ series[n] <= 0
  BY <1>1
<1>5. n > 0 /\ series[n] <= 0 => n \in T
  BY <1>1
<1>6. n > 1 /\ series[n] <= 0 /\ series[n - 1] <= 0 => n - 1 \in T
  BY <1>1
<1>7. n > 1 /\ series[n - 1] > 0 => \A i \in T : i = n
  BY <1>1
<1>8. n = 1 => \A i \in T : i = n
  BY <1>1
<1> HIDE DEF T
<1>9. n = 0 \/ series[n] > 0 => Cardinality(T) = 0
  <2>1. n = 0 \/ series[n] > 0 => T = {}
    BY <1>1, <1>4
  <2> QED BY <2>1, FS_EmptySet
<1>10. n > 0 /\ series[n] <= 0 /\ (n = 1 \/ series[n - 1] > 0) => Cardinality(T) = 1
  <2>1. n > 0 /\ series[n] <= 0 /\ (n = 1 \/ series[n - 1] > 0) => T = {n}
    BY <1>1, <1>5, <1>7, <1>8
  <2> QED BY <2>1, FS_Singleton
<1>11. ASSUME n > 1, series[n] <= 0, series[n - 1] <= 0
       PROVE  Cardinality(T) # 0 /\ Cardinality(T) # 1
  <2>0. n > 0 /\ ~(n = n - 1)
    <3>1. n \in Nat
      OBVIOUS
    <3> HIDE DEF n
    <3> QED BY <3>1, <1>11
  <2>1. n \in T /\ n - 1 \in T /\ n # n - 1
    BY <1>5, <1>6, <1>11, <2>0
  <2>2. Cardinality(T) = 0 <=> T = {}
    BY <1>2, FS_EmptySet
  <2>3. Cardinality(T) = 1 <=> \E x : T = {x}
    BY <1>2, FS_Singleton
  <2> QED BY <2>1, <2>2, <2>3
<1> QED BY <1>3, <1>9, <1>10, <1>11

-----------------------------------------------------------------------------
(* The policy of K-07.                                                     *)

CasesTypeOK ==
  /\ report.number \in Int /\ report.adjustedYoy \in Int \cup {Nil}
  /\ current \in Labels(report)
  /\ prior \in Seq(Rows)

LEMMA CasesStep == CasesTypeOK /\ [CasesNext]_casesVars => CasesTypeOK'
<1> SUFFICES ASSUME CasesTypeOK, [CasesNext]_casesVars PROVE CasesTypeOK'
  OBVIOUS
<1>1. ASSUME NEW r \in Reports, Review(r) PROVE CasesTypeOK'
  BY <1>1, CasesAssumption DEF Review, CasesTypeOK
<1>2. ASSUME NEW row \in Rows, AddPeriod(row) PROVE CasesTypeOK'
  BY <1>2 DEF AddPeriod, CasesTypeOK
<1>3. CASE UNCHANGED casesVars
  BY <1>3 DEF casesVars, CasesTypeOK
<1> QED BY <1>1, <1>2, <1>3 DEF CasesNext

LEMMA CasesTyped == CasesSpec => []CasesTypeOK
<1>1. CasesInit => CasesTypeOK
  BY CasesAssumption DEF CasesInit, CasesTypeOK
<1> QED BY <1>1, CasesStep, PTL DEF CasesSpec

(* Only a label with a growth is verified.                                 *)
LEMMA LabelVerified ==
  ASSUME CasesTypeOK, CurrentVerified(report, current)
  PROVE  /\ report.adjustedYoy \in Int /\ current.yoy = report.adjustedYoy
         /\ current.number \in Int
<1>1. report.number \in Int /\ report.adjustedYoy \in Int \cup {Nil}
  BY CasesAssumption DEF CasesTypeOK
<1> DEFINE right == Period(report.source, Anker, report.kind, report.number, report.adjustedYoy,
                           report.adjustedYoy # Nil)
<1>2. right.accepted <=> report.adjustedYoy # Nil
  BY DEF Period
<1>3. current = Nil \/ current.accepted = right.accepted \/ current.accepted = FALSE
  <2>1. current \in {Nil, right, [right EXCEPT !.accepted = FALSE], [right EXCEPT !.number = @ + 1],
                     [right EXCEPT !.company = Nil], [right EXCEPT !.source = Nil], [right EXCEPT !.yoy = -70]}
    BY DEF CasesTypeOK, Labels
  <2> QED BY <2>1 DEF Period
<1> QED BY <1>1, <1>2, <1>3 DEF CurrentVerified

(* The history is found to be in a row exactly when it is, and ends with   *)
(* the period before the current one.                                      *)
LEMMA StatusIs ==
  ASSUME CasesTypeOK
  PROVE  SequenceStatus(report, current, prior) = "verified" <=>
           /\ CurrentVerified(report, current) /\ Len(prior) > 0
           /\ Chained(prior, current, Len(prior)) /\ current.number = prior[Len(prior)].number + 1
<1> DEFINE n == Len(prior)
           scan == Scan(prior, current)
<1>1. n \in Nat /\ (prior = <<>> <=> n = 0) /\ \A i \in 1..n : prior[i] \in Rows
  BY DEF CasesTypeOK
<1>2. ScanHolds(scan, prior, current, n)
  BY ScanFinds DEF CasesTypeOK
<1>3. n > 0 /\ Chained(prior, current, n) => prior[n].number \in Int /\ prior[n].number # Nil
  BY <1>1, CasesAssumption DEF Chained
<1> HIDE DEF scan
<1>4. CASE CurrentVerified(report, current) /\ n > 0
  <2>1. SequenceStatus(report, current, prior) = "verified" <=>
          scan.unbroken /\ scan.last # Nil /\ current.number = scan.last + 1
    BY <1>1, <1>4 DEF SequenceStatus, scan
  <2> QED BY <1>2, <1>3, <1>4, <2>1 DEF ScanHolds
<1>5. CASE ~CurrentVerified(report, current) \/ n = 0
  BY <1>1, <1>5 DEF SequenceStatus
<1> QED BY <1>1, <1>4, <1>5

LEMMA TwoInARowIs ==
  ASSUME CasesTypeOK, CurrentVerified(report, current)
  PROVE  TwoInARow <=>
           /\ SequenceStatus(report, current, prior) = "verified"
           /\ prior[Len(prior)].yoy <= 0 /\ current.yoy <= 0
<1> DEFINE n == Len(prior)
<1>1. n \in Nat /\ \A i \in 1..n : prior[i] \in Rows
  BY DEF CasesTypeOK
<1>2. current.number \in Int
  BY LabelVerified
<1>3. \A i \in 1..n : prior[i] # Nil /\ prior[i].accepted => prior[i].number \in Int
  BY <1>1, CasesAssumption
<1>4. ASSUME n > 0, Chained(prior, current, n), current.number = prior[n].number + 1
      PROVE  /\ Nil \notin {prior[i] : i \in 1..n}
             /\ \A i \in 1..n :
                  /\ prior[i].accepted
                  /\ prior[i].company = current.company
                  /\ prior[i].kind = current.kind
                  /\ prior[i].number = current.number - (n + 1 - i)
                  /\ prior[i].source # current.source
                  /\ \A j \in 1..n : i # j => prior[i].source # prior[j].source
  <2>1. n \in 1..n /\ prior[n].number \in Int
    BY <1>1, <1>3, <1>4 DEF Chained
  <2>2. \A i \in 1..n : prior[i].number = current.number - (n + 1 - i)
    BY <1>1, <1>4, <2>1 DEF Chained
  <2> QED BY <1>4, <2>2 DEF Chained
<1>5. ASSUME n > 0, Nil \notin {prior[i] : i \in 1..n},
             \A i \in 1..n :
                  /\ prior[i].accepted
                  /\ prior[i].company = current.company
                  /\ prior[i].kind = current.kind
                  /\ prior[i].number = current.number - (n + 1 - i)
                  /\ prior[i].source # current.source
                  /\ \A j \in 1..n : i # j => prior[i].source # prior[j].source
      PROVE  Chained(prior, current, n) /\ current.number = prior[n].number + 1
  <2>1. n \in 1..n /\ prior[n].number = current.number - 1
    BY <1>1, <1>2, <1>5
  <2>2. \A i \in 1..n : prior[i].number = prior[n].number - (n - i)
    BY <1>1, <1>2, <1>5, <2>1
  <2> QED BY <1>1, <1>2, <1>5, <2>1, <2>2 DEF Chained
<1>6. TwoInARow <=> /\ n > 0 /\ Chained(prior, current, n) /\ current.number = prior[n].number + 1
                    /\ prior[n].yoy <= 0 /\ current.yoy <= 0
  BY <1>4, <1>5, Zenon DEF TwoInARow
<1> QED BY <1>6, StatusIs

(* What the first layer makes of what it is given: a history in a row, or  *)
(* none.                                                                   *)
LEMMA CountIs ==
  ASSUME CasesTypeOK
  PROVE  LET given == IF SequenceStatus(report, current, prior) = "verified"
                      THEN [i \in DOMAIN prior |-> prior[i].yoy] ELSE <<>>
             now == IF report.adjustedYoy = Nil THEN <<>> ELSE <<report.adjustedYoy>>
             count == TrailingNonPositiveCount(given \o now) IN
         /\ CurrentVerified(report, current) =>
              /\ ~OneInARow => count = 0
              /\ OneInARow /\ ~TwoInARow => count = 1
              /\ OneInARow /\ TwoInARow => count # 0 /\ count # 1
         /\ ~CurrentVerified(report, current) => count = 0 \/ count = 1
         /\ count # 0 => report.adjustedYoy # Nil /\ report.adjustedYoy <= 0
<1> DEFINE n == Len(prior)
           status == SequenceStatus(report, current, prior)
           given == IF status = "verified" THEN [i \in DOMAIN prior |-> prior[i].yoy] ELSE <<>>
           now == IF report.adjustedYoy = Nil THEN <<>> ELSE <<report.adjustedYoy>>
           series == given \o now
           count == TrailingNonPositiveCount(series)
<1>1. n \in Nat /\ DOMAIN prior = 1..n /\ \A i \in 1..n : prior[i] \in Rows
  BY DEF CasesTypeOK
<1>2. report.adjustedYoy \in Int \cup {Nil} /\ Nil \notin Int
  BY CasesAssumption DEF CasesTypeOK
<1> DEFINE Conclusion ==
             /\ CurrentVerified(report, current) =>
                  /\ ~OneInARow => count = 0
                  /\ OneInARow /\ ~TwoInARow => count = 1
                  /\ OneInARow /\ TwoInARow => count # 0 /\ count # 1
             /\ ~CurrentVerified(report, current) => count = 0 \/ count = 1
             /\ count # 0 => report.adjustedYoy # Nil /\ report.adjustedYoy <= 0
<1>3. ASSUME status = "verified" PROVE Conclusion
  <2>1. /\ CurrentVerified(report, current) /\ n > 0
        /\ \A i \in 1..n : prior[i] # Nil /\ prior[i].accepted
    BY <1>3, StatusIs DEF Chained
  <2>2. \A i \in 1..n : prior[i].yoy \in Int
    BY <1>1, <2>1, CasesAssumption
  <2>3. given = [i \in 1..n |-> prior[i].yoy]
    BY <1>1, <1>3
  <2>4. /\ report.adjustedYoy \in Int /\ current.yoy = report.adjustedYoy
        /\ now = <<report.adjustedYoy>>
    BY <1>2, <2>1, LabelVerified
  <2>5. given \in Seq(Int) /\ Len(given) = n /\ given[n] = prior[n].yoy
    BY <1>1, <2>1, <2>2, <2>3
  <2> HIDE DEF given, now, status
  <2>6. /\ series \in Seq(Int) /\ Len(series) = n + 1
        /\ series[n + 1] = report.adjustedYoy /\ series[n] = prior[n].yoy
    BY <1>1, <2>1, <2>4, <2>5
  <2> HIDE DEF series
  <2>7. /\ series[n + 1] > 0 => count = 0
        /\ series[n + 1] <= 0 =>
             /\ series[n] > 0 => count = 1
             /\ series[n] <= 0 => count # 0 /\ count # 1
    BY <1>1, <2>1, <2>6, Trailing
  <2>8. TwoInARow <=> prior[n].yoy <= 0 /\ current.yoy <= 0
    BY <1>3, <2>1, TwoInARowIs DEF status
  <2>9. OneInARow <=> current.yoy <= 0
    BY <2>1 DEF OneInARow
  <2>10. prior[n].yoy \in Int
    BY <1>1, <2>1, <2>2
  <2> HIDE DEF count
  <2>11. report.adjustedYoy # Nil
    BY <1>2, <2>4
  <2> QED BY <2>1, <2>4, <2>6, <2>7, <2>8, <2>9, <2>10, <2>11
<1>4. ASSUME status # "verified" PROVE Conclusion
  <2>1. given = <<>>
    BY <1>4
  <2>2. CurrentVerified(report, current) => ~TwoInARow
    BY <1>4, TwoInARowIs
  <2>3. now \in Seq(Int) => series = now
    BY <2>1, ConcatEmptySeq
  <2>4. CASE report.adjustedYoy = Nil
    <3>1. series = <<>> /\ <<>> \in Seq(Int)
      BY <2>3, <2>4
    <3> HIDE DEF series
    <3>2. count = 0
      BY <3>1, Trailing
    <3>3. ~CurrentVerified(report, current)
      BY <1>2, <2>4, LabelVerified
    <3> HIDE DEF count
    <3> QED BY <3>2, <3>3
  <2>5. CASE report.adjustedYoy # Nil
    <3>1. /\ report.adjustedYoy \in Int /\ now \in Seq(Int)
          /\ Len(now) = 1 /\ now[1] = report.adjustedYoy
      BY <1>2, <2>5
    <3> HIDE DEF series, now
    <3>2. series \in Seq(Int) /\ Len(series) = 1 /\ series[1] = report.adjustedYoy
      BY <2>3, <3>1
    <3>3. /\ series[1] > 0 => count = 0
          /\ series[1] <= 0 => count = 1
      <4>1. /\ Len(series) = 0 \/ series[Len(series)] > 0 => count = 0
            /\ Len(series) > 0 /\ series[Len(series)] <= 0 =>
                 (Len(series) = 1 \/ series[Len(series) - 1] > 0 => count = 1)
        BY <3>2, Trailing, Zenon
      <4> HIDE DEF count
      <4> QED BY <3>2, <4>1
    <3>4. CurrentVerified(report, current) => (OneInARow <=> report.adjustedYoy <= 0)
      BY LabelVerified DEF OneInARow
    <3> HIDE DEF count
    <3> QED BY <2>2, <2>5, <3>1, <3>2, <3>3, <3>4 DEF OneInARow
  <2> QED BY <2>4, <2>5
<1> QED BY <1>3, <1>4

LEMMA PolicyFollowed ==
  ASSUME CasesTypeOK, NEW recurring \in Views, NEW gates \in Gates
  PROVE  LET result == RunC04ChainK07B(report, current, prior, recurring, gates, NoValuation)
             recognized == recurring = "recurring" /\ gates["EG-01"] = "approved" IN
         result.status # "blocked" =>
           /\ result.criterion = "triggered" <=> recognized \/ (OneInARow /\ TwoInARow)
           /\ result.criterion = "watch" <=> ~recognized /\ OneInARow /\ ~TwoInARow
           /\ result.basis = "attributable" <=> result.criterion = "triggered"
           /\ result.criterion \in {"triggered", "watch"} => result.signal = "weakened"
<1> DEFINE context == V01Context(report, current, prior, recurring, gates)
           chain == RunC04Chain(report, context.prior, context.recurring, gates, NoValuation)
           result == RunC04ChainK07B(report, current, prior, recurring, gates, NoValuation)
           view == Recognized(recurring, gates)
           opinion == Accounting(view)
           now == IF report.adjustedYoy = Nil THEN <<>> ELSE <<report.adjustedYoy>>
           count == TrailingNonPositiveCount(context.prior \o now)
           quantitative == CASE count = 0 -> "clear" [] count = 1 -> "watch" [] OTHER -> "triggered"
           verified == CurrentVerified(report, current)
<1>1. SUFFICES ASSUME result.status # "blocked"
      PROVE  LET recognized == recurring = "recurring" /\ gates["EG-01"] = "approved" IN
             /\ result.criterion = "triggered" <=> recognized \/ (OneInARow /\ TwoInARow)
             /\ result.criterion = "watch" <=> ~recognized /\ OneInARow /\ ~TwoInARow
             /\ result.basis = "attributable" <=> result.criterion = "triggered"
             /\ result.criterion \in {"triggered", "watch"} => result.signal = "weakened"
  OBVIOUS
<1>2. /\ opinion \in {"unknown", "triggered", "clear"}
      /\ opinion = "triggered" <=> recurring = "recurring" /\ gates["EG-01"] = "approved"
  BY CasesAssumption DEF Recognized, Accounting, Views
<1>3. /\ verified =>
           /\ ~OneInARow => count = 0
           /\ OneInARow /\ ~TwoInARow => count = 1
           /\ OneInARow /\ TwoInARow => count # 0 /\ count # 1
      /\ ~verified => count = 0 \/ count = 1
      /\ count # 0 => report.adjustedYoy # Nil /\ report.adjustedYoy <= 0
  BY CountIs DEF V01Context
<1>4. context.recurring = view
  BY DEF V01Context
<1> HIDE DEF context, count, view, opinion, verified
<1>5. /\ quantitative \in {"clear", "watch", "triggered"}
      /\ quantitative = "clear" <=> count = 0
      /\ quantitative = "watch" <=> count = 1
  OBVIOUS
<1> HIDE DEF quantitative
<1>6. Complete(report) /\ chain.status = result.status
  BY <1>1 DEF RunC04ChainK07B, RunC04Chain, RefusedReport, context
<1>7. /\ chain.quantitative = quantitative
      /\ chain.basis = IF "triggered" \in {quantitative, opinion} THEN "attributable" ELSE "adjusted"
      /\ chain.signal = IF "triggered" \in {quantitative, opinion} THEN "weakened"
                        ELSE GrowthSignal(report)
  BY <1>4, <1>6 DEF RunC04Chain, quantitative, count, opinion
<1>8. /\ result.basis = chain.basis /\ result.signal = chain.signal
      /\ result.criterion =
           LET judged == IF verified THEN quantitative ELSE "unknown" IN
           CASE opinion = "triggered" -> "triggered"
             [] opinion # "triggered" /\ judged \in {"triggered", "watch"} -> judged
             [] OTHER -> IF "unknown" \in {judged, opinion} THEN "unknown" ELSE "clear"
  BY <1>1, <1>6, <1>7 DEF RunC04ChainK07B, context, opinion, view, verified, RunC04Chain
<1> HIDE DEF chain, result
<1>9. /\ result.criterion = "triggered" <=> opinion = "triggered" \/ (verified /\ quantitative = "triggered")
      /\ result.criterion = "watch" <=> opinion # "triggered" /\ verified /\ quantitative = "watch"
  BY <1>2, <1>5, <1>8
<1>10. OneInARow => verified
  BY DEF OneInARow, verified
<1>11. quantitative = "watch" => GrowthSignal(report) = "weakened"
  BY <1>3, <1>5 DEF GrowthSignal
<1> QED BY <1>2, <1>3, <1>5, <1>7, <1>8, <1>9, <1>10, <1>11

(* For a history of any length, any gates and any opinion, K-07 triggers   *)
(* exactly when its policy says, and the three layers agree on it          *)
(* (runC04ChainK07B).                                                      *)
THEOREM PolicyDecides == CasesSpec => []TriggeredByPolicy
<1>1. CasesTypeOK => TriggeredByPolicy
  BY PolicyFollowed DEF TriggeredByPolicy
<1> QED BY <1>1, CasesTyped, PTL

-----------------------------------------------------------------------------
(* Opinions.                                                               *)

(* What comes out of the reviewed chain on one opinion.                    *)
LEMMA OpinionNeeded ==
  ASSUME NEW opinion, NEW gates \in Gates, NEW valuation,
         RunC04ChainReviewed(report, current, prior, opinion, gates, valuation) # Nil
  PROVE  LET result == RunC04ChainReviewed(report, current, prior, opinion, gates, valuation)
             backed == /\ opinion # Nil
                       /\ opinion.author = "human" /\ opinion.completed
                       /\ opinion.source = report.source
                       /\ gates["EG-01"] = "approved"
             classes == {row.class : row \in {r \in opinion.accounting : r.coverage = "entire"}} IN
         /\ "EG-02" \in result.decisionGates \cap result.valuationGates
         /\ ~result.scenarios
         /\ "EG-01" \notin result.decisionGates => backed
         /\ result.assumption # "pending-review" => backed
         /\ result.accounting = "triggered" => backed /\ classes = {"recurring"}
         /\ result.accounting = "clear" => backed /\ classes = {"non-recurring"}
<1> DEFINE effective == EffectiveGates(opinion, gates)
           valid == FromHuman(opinion) /\ effective["EG-01"] = "approved"
           view == IF valid THEN Classified(opinion) ELSE Nil
           chain == RunC04ChainK07B(report, current, prior, view, effective, valuation)
           result == RunC04ChainReviewed(report, current, prior, opinion, gates, valuation)
           backed == /\ opinion # Nil
                     /\ opinion.author = "human" /\ opinion.completed
                     /\ opinion.source = report.source
                     /\ gates["EG-01"] = "approved"
           classes == {row.class : row \in {r \in opinion.accounting : r.coverage = "entire"}}
<1>1. opinion # Nil => AboutReport(opinion, report)
  BY DEF RunC04ChainReviewed
<1>2. /\ effective["EG-02"] = "pending"
      /\ effective["EG-01"] = "approved" => FromHuman(opinion) /\ gates["EG-01"] = "approved"
  BY DEF EffectiveGates, Gates
<1>3. effective["EG-01"] = "approved" => backed
  BY <1>1, <1>2 DEF FromHuman, AboutReport
<1>4. "EG-02" \in OpenGates(effective) /\ ("EG-01" \notin OpenGates(effective) => backed)
  BY <1>2, <1>3 DEF OpenGates
<1>5. /\ view \in {"recurring", "non-recurring", Nil}
      /\ view = "recurring" => valid /\ classes = {"recurring"}
      /\ view = "non-recurring" => valid /\ classes = {"non-recurring"}
  BY CasesAssumption DEF Classified
<1> HIDE DEF view, backed, classes
<1>6. /\ OpenGates(effective) \subseteq chain.decisionGates
      /\ OpenGates(effective) \subseteq chain.valuationGates
      /\ chain.accounting = Accounting(Recognized(view, effective))
      /\ DOMAIN chain = {"status", "signal", "assumption", "quantitative", "accounting", "criterion", "count",
                         "basis", "scenarios", "valuationGates", "decisionGates"}
  BY DEF RunC04ChainK07B, V01Context, RunC04Chain, RefusedReport
<1>7. result = [chain EXCEPT
                  !.assumption = IF valid THEN AssumptionStatus(opinion.conclusion) ELSE "pending-review",
                  !.scenarios = FALSE,
                  !.valuationGates = @ \cup {"UNVERIFIED"}]
  BY <1>1, Zenon DEF RunC04ChainReviewed, view
<1>8. /\ chain.accounting = "triggered" => view = "recurring"
      /\ chain.accounting = "clear" => view = "non-recurring"
  BY <1>5, <1>6, CasesAssumption DEF Accounting, Recognized
<1> HIDE DEF chain, result, effective
<1>9. /\ result.decisionGates = chain.decisionGates /\ result.accounting = chain.accounting
      /\ result.scenarios = FALSE /\ chain.valuationGates \subseteq result.valuationGates
      /\ result.assumption # "pending-review" => valid
  BY <1>6, <1>7
<1>10. /\ "EG-02" \in result.decisionGates \cap result.valuationGates
       /\ ~result.scenarios
       /\ "EG-01" \notin result.decisionGates => backed
       /\ result.assumption # "pending-review" => backed
       /\ result.accounting = "triggered" => backed /\ classes = {"recurring"}
       /\ result.accounting = "clear" => backed /\ classes = {"non-recurring"}
  BY <1>3, <1>4, <1>5, <1>6, <1>8, <1>9
<1> QED BY <1>10 DEF result, backed, classes

(* Whatever a caller approves, a gate is closed and a view of accounting   *)
(* counts only on a human opinion about this report, and no valuation comes*)
(* out (runC04ChainReviewed).                                              *)
THEOREM OpinionsDecide == CasesSpec => []OnlyOpinionsOpenGates
<1>1. OnlyOpinionsOpenGates
  BY OpinionNeeded DEF OnlyOpinionsOpenGates
<1> QED BY <1>1, PTL

-----------------------------------------------------------------------------
(* Results.                                                                *)

LEMMA TrailingIsNat ==
  ASSUME NEW series \in Seq(Int)
  PROVE  TrailingNonPositiveCount(series) \in Nat
<1> DEFINE T == {i \in DOMAIN series : \A j \in i..Len(series) : series[j] <= 0}
<1>1. IsFiniteSet(1..Len(series)) /\ T \in SUBSET (1..Len(series))
  BY FS_Interval
<1>2. IsFiniteSet(T)
  BY <1>1, FS_Subset
<1> QED BY <1>2, FS_CardinalityType DEF TrailingNonPositiveCount

(* V0.1 on any growths of the past.                                        *)
LEMMA V01Coheres ==
  ASSUME CasesTypeOK, NEW growths \in Seq(Int), NEW recurring \in Views, NEW gates \in Gates,
         NEW valuation \in ValuationInputs
  PROVE  LET result == RunC04Chain(report, growths, recurring, gates, valuation)
         IN result \in C04ChainResult /\ Coherent(result)
<1> DEFINE result == RunC04Chain(report, growths, recurring, gates, valuation)
<1>1. /\ OpenGates(gates) \subseteq {"EG-01", "EG-02"}
      /\ report.adjustedYoy \in Int \cup {Nil}
      /\ Nil \notin Int \cup {"recurring", "non-recurring", "adjusted", "attributable"}
  BY CasesAssumption DEF OpenGates, CasesTypeOK
<1>2. CASE ~Complete(report)
  <2>1. result = RefusedReport(gates)
    BY <1>2 DEF RunC04Chain
  <2> QED BY <1>1, <2>1 DEF RefusedReport, C04ChainResult, AssumptionStates, Coherent
<1>3. CASE Complete(report)
  <2> DEFINE now == IF report.adjustedYoy = Nil THEN <<>> ELSE <<report.adjustedYoy>>
             count == TrailingNonPositiveCount(growths \o now)
             quantitative == CASE count = 0 -> "clear" [] count = 1 -> "watch" [] OTHER -> "triggered"
             triggered == "triggered" \in {quantitative, Accounting(recurring)}
             gaps == ValuationGaps(report, valuation)
  <2>1. result =
          [status |-> IF BridgeCloses(report) THEN "ready" ELSE "blocked",
           signal |-> IF triggered THEN "weakened" ELSE GrowthSignal(report),
           assumption |-> IF gates["EG-01"] = "pending" THEN "pending-review" ELSE gates["EG-01"],
           quantitative |-> quantitative,
           accounting |-> Accounting(recurring),
           criterion |-> IF triggered THEN "triggered" ELSE quantitative,
           count |-> count,
           basis |-> IF triggered THEN "attributable" ELSE "adjusted",
           scenarios |-> gaps \cap {"INPUT", "F-02", "NON_FINITE"} = {},
           valuationGates |-> OpenGates(gates) \cup gaps,
           decisionGates |-> OpenGates(gates) \cup (gaps \cap {"F-02"})]
    BY <1>3, Zenon DEF RunC04Chain
  <2>2. count \in Nat
    <3>1. now \in Seq(Int)
      BY <1>1
    <3>2. growths \o now \in Seq(Int)
      BY <3>1
    <3> QED BY <3>2, TrailingIsNat
  <2>3. /\ gaps \subseteq {"PERIOD", "SHARES", "MULTIPLES", "F-02", "INPUT", "NON_FINITE"}
        /\ "F-02" \in gaps <=> ~BridgeCloses(report)
    BY DEF ValuationGaps
  <2>4. /\ quantitative \in {"clear", "watch", "triggered"}
        /\ Accounting(recurring) \in {"clear", "triggered", "unknown"}
        /\ GrowthSignal(report) \in {"strengthened", "mixed", "weakened", "unchanged"}
        /\ gates["EG-01"] \in {"pending", "approved", "rejected"}
    BY <1>1 DEF Accounting, Views, GrowthSignal, Gates
  <2> HIDE DEF result, count, quantitative, triggered, gaps
  <2>5. result \in C04ChainResult
    BY <1>1, <2>1, <2>2, <2>3, <2>4 DEF C04ChainResult, AssumptionStates
  <2>6. Coherent(result)
    BY <1>1, <2>1, <2>3 DEF Coherent
  <2> QED BY <2>5, <2>6 DEF result
<1> QED BY <1>2, <1>3

(* A sequence is handed down only if each of its periods has a growth.     *)
LEMMA GrowthsHandedDown ==
  ASSUME CasesTypeOK, NEW recurring \in Views, NEW gates
  PROVE  LET context == V01Context(report, current, prior, recurring, gates)
         IN context.prior \in Seq(Int) /\ context.recurring \in Views
<1> DEFINE n == Len(prior)
           status == SequenceStatus(report, current, prior)
           given == IF status = "verified" THEN [i \in DOMAIN prior |-> prior[i].yoy] ELSE <<>>
<1>1. n \in Nat /\ DOMAIN prior = 1..n /\ \A i \in 1..n : prior[i] \in Rows
  BY DEF CasesTypeOK
<1>2. status = "verified" => \A i \in 1..n : prior[i].yoy \in Int
  <2>1. status = "verified" => \A i \in 1..n : prior[i] # Nil /\ prior[i].accepted
    BY StatusIs DEF Chained
  <2> QED BY <1>1, <2>1, CasesAssumption
<1> HIDE DEF status
<1>3. given \in Seq(Int)
  <2>1. CASE status = "verified"
    <3>1. given = [i \in 1..n |-> prior[i].yoy]
      BY <1>1, <2>1
    <3> QED BY <1>1, <1>2, <2>1, <3>1
  <2>2. CASE status # "verified"
    BY <2>2
  <2> QED BY <2>1, <2>2
<1>4. Recognized(recurring, gates) \in Views
  BY DEF Recognized, Views
<1> QED BY <1>3, <1>4 DEF V01Context, status

(* V0.2 amends what V0.1 says of the criterion.                            *)
LEMMA V02Coheres ==
  ASSUME CasesTypeOK, NEW recurring \in Views, NEW gates \in Gates, NEW valuation \in ValuationInputs
  PROVE  LET result == RunC04ChainK07B(report, current, prior, recurring, gates, valuation)
         IN result \in C04ChainResult /\ Coherent(result)
<1> DEFINE context == V01Context(report, current, prior, recurring, gates)
           chain == RunC04Chain(report, context.prior, context.recurring, gates, valuation)
           judged == chain.status # "blocked" /\ CurrentVerified(report, current)
           quantitative == IF judged THEN chain.quantitative ELSE "unknown"
           accounting == Accounting(Recognized(recurring, gates))
           criterion == CASE accounting = "triggered" -> "triggered"
                          [] accounting # "triggered" /\ quantitative \in {"triggered", "watch"} -> quantitative
                          [] OTHER -> IF "unknown" \in {quantitative, accounting} THEN "unknown" ELSE "clear"
           result == RunC04ChainK07B(report, current, prior, recurring, gates, valuation)
<1>1. chain \in C04ChainResult /\ Coherent(chain)
  <2>1. context.prior \in Seq(Int) /\ context.recurring \in Views
    BY GrowthsHandedDown
  <2> QED BY <2>1, V01Coheres
<1>2. accounting \in {"clear", "triggered", "unknown"}
  BY CasesAssumption DEF Accounting, Recognized, Views
<1>3. result = [chain EXCEPT !.quantitative = quantitative, !.accounting = accounting,
                             !.criterion = criterion, !.count = IF judged THEN @ ELSE 0]
  BY Zenon DEF RunC04ChainK07B
<1> HIDE DEF context, chain, accounting, judged, result
<1>4. quantitative \in {"clear", "watch", "triggered", "unknown"}
  BY <1>1 DEF C04ChainResult
<1> HIDE DEF quantitative
<1>5. criterion \in {"clear", "watch", "triggered", "unknown"}
  OBVIOUS
<1> HIDE DEF criterion
<1>6. result \in C04ChainResult
  <2> DEFINE count == IF judged THEN chain.count ELSE 0
  <2>1. count \in Nat
    BY <1>1 DEF C04ChainResult
  <2>2. result = [[[[chain EXCEPT !.quantitative = quantitative] EXCEPT !.accounting = accounting]
                     EXCEPT !.criterion = criterion] EXCEPT !.count = count]
    BY <1>3
  <2> HIDE DEF count
  <2>3. [chain EXCEPT !.quantitative = quantitative] \in C04ChainResult
    BY <1>1, <1>4 DEF C04ChainResult
  <2>4. [[chain EXCEPT !.quantitative = quantitative] EXCEPT !.accounting = accounting] \in C04ChainResult
    BY <1>2, <2>3 DEF C04ChainResult
  <2>5. [[[chain EXCEPT !.quantitative = quantitative] EXCEPT !.accounting = accounting]
           EXCEPT !.criterion = criterion] \in C04ChainResult
    BY <1>5, <2>4 DEF C04ChainResult
  <2> QED BY <2>1, <2>2, <2>5 DEF C04ChainResult
<1>7. Coherent(result)
  BY <1>1, <1>3 DEF C04ChainResult, Coherent
<1> QED BY <1>6, <1>7 DEF result

(* V0.3 amends the assumption and closes the valuation.                    *)
LEMMA V03Coheres ==
  ASSUME CasesTypeOK, NEW opinion \in Opinions, NEW given \in Gates, NEW valuation \in ValuationInputs,
         RunC04ChainReviewed(report, current, prior, opinion, given, valuation) # Nil
  PROVE  LET result == RunC04ChainReviewed(report, current, prior, opinion, given, valuation)
         IN result \in C04ChainResult /\ Coherent(result)
<1> DEFINE gates == EffectiveGates(opinion, given)
           valid == FromHuman(opinion) /\ gates["EG-01"] = "approved"
           view == IF valid THEN Classified(opinion) ELSE Nil
           chain == RunC04ChainK07B(report, current, prior, view, gates, valuation)
           status == IF valid THEN AssumptionStatus(opinion.conclusion) ELSE "pending-review"
           result == RunC04ChainReviewed(report, current, prior, opinion, given, valuation)
<1>1. gates \in Gates /\ view \in Views
  <2>1. gates \in Gates
    BY DEF EffectiveGates, Gates
  <2>2. Classified(opinion) \in Views
    BY DEF Classified, Views
  <2> QED BY <2>1, <2>2 DEF Views
<1>2. result = [chain EXCEPT !.assumption = status, !.scenarios = FALSE,
                             !.valuationGates = @ \cup {"UNVERIFIED"}]
  <2>1. ~(opinion # Nil /\ ~AboutReport(opinion, report))
    BY DEF RunC04ChainReviewed
  <2> QED BY <2>1, Zenon DEF RunC04ChainReviewed
<1>3. status \in {"pending-review", "approved", "rejected", "qualified", "insufficient-evidence"}
  <2>1. valid => opinion.conclusion \in {"accepted", "qualified", "rejected", "insufficient"}
    BY CasesAssumption DEF FromHuman, Conclusions
  <2> QED BY <2>1 DEF AssumptionStatus
<1> HIDE DEF gates, valid, view, status, result
<1>4. chain \in C04ChainResult /\ Coherent(chain)
  BY <1>1, V02Coheres
<1> HIDE DEF chain
<1>5. result \in C04ChainResult
  BY <1>2, <1>3, <1>4 DEF C04ChainResult, AssumptionStates
<1>6. Coherent(result)
  BY <1>2, <1>4 DEF C04ChainResult, Coherent
<1> QED BY <1>5, <1>6 DEF result

(* Whatever label, history, opinion, gates and valuation a caller hands in,*)
(* each generation of the chain returns a whole result whose gates, status,*)
(* scenarios and basis agree, although each amends the one before it       *)
(* (runC04Chain, runC04ChainK07B, runC04ChainReviewed).                    *)
THEOREM ResultsAgree == CasesSpec => []ResultsCohere
<1>1. ASSUME CasesTypeOK PROVE ResultsCohere
  <2> SUFFICES ASSUME NEW gates \in Gates, NEW valuation \in Valuations
               PROVE
                 /\ \A recurring \in Views :
                      LET context == V01Context(report, current, prior, recurring, gates) IN
                      \A result \in {RunC04Chain(report, context.prior, context.recurring, gates, valuation),
                                     RunC04ChainK07B(report, current, prior, recurring, gates, valuation)} :
                        result \in C04ChainResult /\ Coherent(result)
                 /\ \A opinion \in Opinions :
                      \A result \in {RunC04ChainReviewed(report, current, prior, opinion, gates, valuation)}
                                      \ {Nil} :
                        result \in C04ChainResult /\ Coherent(result)
    BY DEF ResultsCohere
  <2>1. valuation \in ValuationInputs
    BY CasesAssumption
  <2>2. ASSUME NEW recurring \in Views
        PROVE  LET context == V01Context(report, current, prior, recurring, gates) IN
               \A result \in {RunC04Chain(report, context.prior, context.recurring, gates, valuation),
                              RunC04ChainK07B(report, current, prior, recurring, gates, valuation)} :
                 result \in C04ChainResult /\ Coherent(result)
    BY <1>1, <2>1, GrowthsHandedDown, V01Coheres, V02Coheres
  <2>3. ASSUME NEW opinion \in Opinions
        PROVE  \A result \in {RunC04ChainReviewed(report, current, prior, opinion, gates, valuation)} \ {Nil} :
                 result \in C04ChainResult /\ Coherent(result)
    BY <1>1, <2>1, V03Coheres
  <2> QED BY <2>2, <2>3
<1> QED BY <1>1, CasesTyped, PTL

-----------------------------------------------------------------------------
(* Citations.                                                              *)

AtMost(S, k) == IsFiniteSet(S) /\ Cardinality(S) <= k

LEMMA OneMoreIn ==
  ASSUME NEW S, NEW x, NEW k \in Int, AtMost(S, k)
  PROVE  AtMost(S \cup {x}, k + 1)
<1>1. IsFiniteSet(S \cup {x})
      /\ Cardinality(S \cup {x}) = IF x \in S THEN Cardinality(S) ELSE Cardinality(S) + 1
  BY FS_AddElement DEF AtMost
<1>2. Cardinality(S) \in Nat
  BY FS_CardinalityType DEF AtMost
<1> QED BY <1>1, <1>2 DEF AtMost

LEMMA ReferencesFit == AtMost(References, MaxCitations)
<1> DEFINE With(S, x, y) == (S \cup {x}) \cup {y}
<1>1. ASSUME NEW S, NEW x, NEW y, NEW k \in Int, AtMost(S, k)
      PROVE  AtMost(With(S, x, y), k + 2)
  <2>1. k + 1 \in Int /\ (k + 1) + 1 = k + 2
    OBVIOUS
  <2>2. AtMost(S \cup {x}, k + 1)
    BY <1>1, OneMoreIn, Zenon
  <2>3. AtMost((S \cup {x}) \cup {y}, (k + 1) + 1)
    BY <2>1, <2>2, OneMoreIn, Zenon
  <2> QED BY <2>1, <2>3, Zenon
<1>2. AtMost({}, 0)
  BY FS_EmptySet DEF AtMost
<1>3. References = With(With(With(With({}, "ATTR", "ADJ"), "NR", "SPREAD"), "A-03", "K-07"), "F-02", "Valuation-B5")
  BY DEF References, Sources, Rules
<1> HIDE DEF With
<1>4. AtMost(With(With(With(With({}, "ATTR", "ADJ"), "NR", "SPREAD"), "A-03", "K-07"), "F-02", "Valuation-B5"), 8)
  BY <1>1, <1>2
<1> QED BY <1>3, <1>4 DEF MaxCitations

LEMMA SomeCited ==
  ASSUME NEW ids, ids \subseteq References, ids # {}
  PROVE  Citable(ids)
<1>1. IsFiniteSet(References) /\ Cardinality(References) <= MaxCitations
  BY ReferencesFit DEF AtMost
<1>2. IsFiniteSet(ids) /\ Cardinality(ids) <= Cardinality(References)
  BY <1>1, FS_Subset
<1>3. Cardinality(ids) \in Nat /\ Cardinality(References) \in Nat
  BY <1>1, <1>2, FS_CardinalityType
<1> QED BY <1>1, <1>2, <1>3 DEF Citable, MaxCitations

(* What is cited with something needs nothing more itself.                 *)
LEMMA ClosedUp ==
  ASSUME NEW ids, ids \subseteq References
  PROVE  /\ ids \subseteq Closure(ids) /\ Closure(ids) \subseteq References
         /\ \A id \in Closure(ids) : Requires(id) \subseteq Closure(ids)
<1>1. \A id \in References : /\ Requires(id) \subseteq References
                             /\ \A other \in Requires(id) : Requires(other) = {}
  BY DEF Requires, References, Sources, Rules
<1>2. ids \subseteq Closure(ids) /\ \A id \in ids : Requires(id) \subseteq Closure(ids)
  BY DEF Closure
<1>3. \A id \in Closure(ids) : id \in ids \/ \E other \in ids : id \in Requires(other)
  BY DEF Closure
<1> QED BY <1>1, <1>2, <1>3

(* The controlled group of a point is closed, and whether or not there is  *)
(* a contract it keeps the sources together and the assumption in sight.   *)
LEMMA ControlledIsCitable ==
  ASSUME NEW point \in Points, NEW counter, counter \subseteq References, NEW intent
  PROVE  /\ Citable(ControlledGroup(point, counter, intent))
         /\ point = "directAnswer" => Sources \subseteq ControlledGroup(point, counter, intent)
         /\ point = "uncertainty" => "A-03" \in ControlledGroup(point, counter, intent)
<1>1. PICK ids : /\ ControlledGroup(point, counter, intent) = Closure(ids)
                 /\ ids \subseteq References /\ ids # {}
                 /\ point = "directAnswer" => Sources \subseteq ids
                 /\ point = "uncertainty" => "A-03" \in ids
  BY DEF ControlledGroup, Points, References, Sources, Rules
<1>2. ids \subseteq Closure(ids) /\ Closure(ids) \subseteq References
  BY <1>1, ClosedUp
<1>3. Citable(Closure(ids))
  BY <1>1, <1>2, SomeCited
<1> QED BY <1>1, <1>2, <1>3

(* What is offered is accepted as it was sent, and again when its groups   *)
(* are replaced by their members.                                          *)
LEMMA AnswersPass ==
  ASSUME NEW context, Against(context) \subseteq References, NEW question,
         NEW output \in OfferedAnswers(context, question)
  PROVE  AcceptsOutput(output, context, question)
<1> DEFINE Definition(point) == ControlledPoint(point, context, question.intent)
           members == Expanded(output)
<1>1. /\ output.sufficiency \in Sufficiency(context, question)
      /\ \A point \in Points : output.points[point] \in OfferedPoint(point, context, question)
  BY DEF OfferedAnswers, Points
<1>2. ASSUME NEW point \in Points
      PROVE  /\ output.points[point].text \in Definition(point).texts
             /\ output.points[point].citations = {Definition(point).group}
  BY <1>1 DEF OfferedPoint
<1>3. /\ members.sufficiency = output.sufficiency
      /\ \A point \in Points :
           /\ members.points[point].text = output.points[point].text
           /\ members.points[point].citations = UNION output.points[point].citations
  BY DEF Expanded
<1> HIDE DEF members
<1>4. ASSUME NEW point \in Points
      PROVE  /\ members.points[point].citations = Definition(point).group
             /\ Definition(point).group = ControlledGroup(point, Against(context), question.intent)
  <2>1. UNION output.points[point].citations = Definition(point).group
    BY <1>2
  <2>2. Definition(point).group = ControlledGroup(point, Against(context), question.intent)
    BY DEF ControlledPoint
  <2> QED BY <1>3, <2>1, <2>2
<1> HIDE DEF Definition
<1>5. ASSUME NEW point \in Points
      PROVE  /\ Citable(members.points[point].citations)
             /\ point = "directAnswer" => Sources \subseteq members.points[point].citations
             /\ point = "uncertainty" => "A-03" \in members.points[point].citations
  BY <1>4, ControlledIsCitable
<1>6. "directAnswer" \in Points /\ "uncertainty" \in Points
  BY DEF Points
<1>7. AcceptsExplanation(members, context, question)
  <2>1. ASSUME NEW point \in Points
        PROVE  /\ Citable(members.points[point].citations)
               /\ AcceptsPoint(members.points[point], Definition(point).texts, Definition(point).group)
    BY <1>2, <1>3, <1>4, <1>5 DEF AcceptsPoint
  <2>2. /\ Sources \subseteq UNION {members.points[point].citations : point \in Points}
        /\ "A-03" \in members.points["uncertainty"].citations
    BY <1>5, <1>6
  <2> QED BY <1>1, <1>3, <2>1, <2>2, Zenon DEF AcceptsExplanation, Definition
<1>8. \A point \in Points :
        AcceptsPoint(output.points[point], Definition(point).texts, {Definition(point).group})
  BY <1>2 DEF AcceptsPoint
<1> QED BY <1>7, <1>8, Zenon DEF AcceptsOutput, Definition, members

LEMMA GroupsPass ==
  ASSUME NEW counter, counter \subseteq References,
         NEW point \in Points, NEW group \in CitationChoices(point, counter)
  PROVE  AcceptsParagraph(point, group, counter)
<1>1. PICK ids : /\ group = Closure(ids) /\ ids \subseteq References /\ ids # {}
                 /\ point = "counterEvidence" /\ counter # {} => ids \cap counter # {}
                 /\ point = "uncertainty" => "A-03" \in ids
  <2>1. CASE point = "uncertainty"
    <3>1. PICK id \in References : group = Closure({id, "A-03"})
      BY <2>1 DEF CitationChoices
    <3> QED BY <2>1, <3>1 DEF References, Rules
  <2>2. CASE point = "counterEvidence" /\ counter # {}
    <3>1. PICK id \in References, against \in counter :
            group = Closure({id, against, "ATTR", "ADJ", "A-03"})
      BY <2>2 DEF CitationChoices
    <3>2. /\ {id, against, "ATTR", "ADJ", "A-03"} \subseteq References
          /\ against \in {id, against, "ATTR", "ADJ", "A-03"} \cap counter
      BY DEF References, Sources, Rules
    <3> QED BY <2>2, <3>1, <3>2
  <2>3. CASE point # "uncertainty" /\ ~(point = "counterEvidence" /\ counter # {})
    <3>1. PICK id \in References : group = Closure({id})
      BY <2>3 DEF CitationChoices
    <3> QED BY <2>3, <3>1
  <2> QED BY <2>1, <2>2, <2>3
<1>2. /\ ids \subseteq group /\ group \subseteq References
      /\ \A id \in group : Requires(id) \subseteq group
  BY <1>1, ClosedUp
<1>3. Citable(group)
  BY <1>1, <1>2, SomeCited
<1> QED BY <1>1, <1>2, <1>3 DEF AcceptsParagraph

(* A memo that cites everything is accepted, as one and as an older memo,  *)
(* exactly if there are facts on both sides.                               *)
LEMMA MemoNeedsBothSides ==
  ASSUME NEW evidence, DOMAIN evidence \subseteq References,
         NEW promptVersion \in {MEMO_PROMPT_VERSION} \cup LEGACY_MEMO_PROMPTS
  PROVE  AcceptsMemo(StoredMemo(OfferedMemo(References)), evidence, promptVersion)
           <=> {"support", "counter"} \subseteq {evidence[id] : id \in DOMAIN evidence}
<1> DEFINE memo == StoredMemo(OfferedMemo(References))
<1>1. Citable(References)
  BY SomeCited DEF References, Rules
<1>2. \A side : References \cap On(side, evidence) # {} <=> side \in {evidence[id] : id \in DOMAIN evidence}
  BY DEF On
<1>3. MemoContract(promptVersion) \in {"compact", "legacy"}
  BY DEF MemoContract
<1>4. ASSUME NEW section \in MemoSections
      PROVE  /\ Len(memo[section]) \in SectionSizes(section, MemoContract(promptVersion))
             /\ 1 \in DOMAIN memo[section]
             /\ \A i \in DOMAIN memo[section] : memo[section][i] = References
  <2>1. /\ SlotsOf(section) \in Seq({"point", "first", "second"})
        /\ Len(SlotsOf(section)) \in 1..2
        /\ section = "summary" => Len(SlotsOf(section)) = 1
    <3> DEFINE Names == {"point", "first", "second"}
    <3>1. <<"point">> \in Seq(Names) /\ <<"first", "second">> \in Seq(Names)
      OBVIOUS
    <3>2. Len(<<"point">>) = 1 /\ Len(<<"first", "second">>) = 2
      OBVIOUS
    <3> HIDE DEF memo
    <3>3. SlotsOf(section) = <<"point">> \/ (section = "questions" /\ SlotsOf(section) = <<"first", "second">>)
      BY DEF SlotsOf
    <3>4. CASE SlotsOf(section) = <<"point">>
      <4>1. Len(SlotsOf(section)) = 1
        BY <3>2, <3>4
      <4> QED BY <3>1, <3>4, <4>1
    <3>5. CASE section = "questions" /\ SlotsOf(section) = <<"first", "second">>
      <4>1. Len(SlotsOf(section)) = 2
        BY <3>2, <3>5
      <4>2. SlotsOf(section) \in Seq(Names)
        BY <3>1, <3>5
      <4>3. section # "summary"
        BY <3>5
      <4> QED BY <4>1, <4>2, <4>3
    <3> QED BY <3>3, <3>4, <3>5
  <2>2. memo[section] = [i \in DOMAIN SlotsOf(section) |-> References]
    <3> DEFINE output == OfferedMemo(References)
    <3>1. output[section] = [slot \in {SlotsOf(section)[i] : i \in DOMAIN SlotsOf(section)} |-> References]
      BY DEF OfferedMemo
    <3>2. \A i \in DOMAIN SlotsOf(section) : output[section][SlotsOf(section)[i]] = References
      BY <3>1
    <3> HIDE DEF output
    <3>3. StoredMemo(output)[section] = [i \in DOMAIN SlotsOf(section) |-> output[section][SlotsOf(section)[i]]]
      BY DEF StoredMemo
    <3>4. StoredMemo(output)[section] = [i \in DOMAIN SlotsOf(section) |-> References]
      BY <3>2, <3>3
    <3> QED BY <3>4 DEF output
  <2> HIDE DEF memo
  <2>3. /\ memo[section] \in Seq(SUBSET References)
        /\ Len(memo[section]) = Len(SlotsOf(section))
        /\ DOMAIN memo[section] = 1 .. Len(SlotsOf(section))
    BY <2>1, <2>2
  <2>4. Len(SlotsOf(section)) \in SectionSizes(section, MemoContract(promptVersion))
    BY <2>1 DEF SectionSizes
  <2>5. 1 \in DOMAIN memo[section]
    BY <2>1, <2>3
  <2>6. \A i \in DOMAIN memo[section] : memo[section][i] = References
    BY <2>1, <2>2
  <2> QED BY <2>3, <2>4, <2>5, <2>6
<1>5. {"supporting", "counter"} \subseteq MemoSections /\ Sources \subseteq References /\ Nil \notin {"compact", "legacy"}
  BY CasesAssumption DEF MemoSections, References
<1> HIDE DEF memo
<1>6. AcceptsMemo(memo, evidence, promptVersion)
        <=> {"support", "counter"} \subseteq {evidence[id] : id \in DOMAIN evidence}
  BY <1>1, <1>2, <1>3, <1>4, <1>5 DEF AcceptsMemo
<1> QED BY <1>6 DEF memo

LEMMA OffersAccepted == OfferedIsAccepted
<1>1. \A evidence \in {ChainEvidence(report)} : DOMAIN evidence \subseteq References
  BY DEF ChainEvidence, References, Sources
<1>2. \A evidence \in {ChainEvidence(report)} : On("counter", evidence) \subseteq References
  BY <1>1 DEF On
<1>3. \A context \in QuestionContexts(report) : Against(context) \subseteq References
  BY <1>2 DEF QuestionContexts, Against
<1>4. \A context \in QuestionContexts(report), question \in Questions :
        \A output \in OfferedAnswers(context, question) : AcceptsOutput(output, context, question)
  BY <1>3, AnswersPass
<1>5. \A evidence \in {ChainEvidence(report)} : \A counter \in {On("counter", evidence)} :
        \A point \in Points : \A group \in CitationChoices(point, counter) :
          AcceptsParagraph(point, group, counter)
  BY <1>2, GroupsPass
<1>6. \A evidence \in {ChainEvidence(report)} :
        AcceptsMemo(StoredMemo(OfferedMemo(References)), evidence, MEMO_PROMPT_VERSION)
          <=> {"support", "counter"} \subseteq {evidence[id] : id \in DOMAIN evidence}
  BY <1>1, MemoNeedsBothSides
<1> QED BY <1>4, <1>5, <1>6, Zenon DEF OfferedIsAccepted

(* Whatever the numbers of a report, an answer that keeps to what is       *)
(* offered is accepted, and a memo can be exactly if there is evidence on  *)
(* both sides (controlledQuestionPoints, validateQuestionExplanation,      *)
(* validateMemo).                                                          *)
THEOREM OffersAreAccepted == CasesSpec => []OfferedIsAccepted
  BY OffersAccepted, PTL

-----------------------------------------------------------------------------
(* The review of an explanation.                                           *)

(* Nothing passes the review by accident: a candidate is an explanation    *)
(* that was validated once more and a verdict that came, is well formed    *)
(* and supports it in every respect; no failure of the judge, and no       *)
(* malformed answer of his, passes or blocks anything, and every record    *)
(* still waits for a person (decideReview, reviewCandidate).               *)
THEOREM NothingPassesByAccident ==
  ASSUME NEW context, NEW explanation, NEW verdict \in JudgeVerdict \cup {Nil}
  PROVE  \A record \in {ReviewCandidate(context, explanation, verdict)} \ {Nil} :
           /\ record \in ReviewRecord
           /\ record.outcome = "PASS_CANDIDATE" =>
                /\ AcceptsExplanation(explanation, context, NoContract)
                /\ verdict # Nil /\ verdict.decision = "supported"
                /\ verdict.confidence \in 90..100
                /\ verdict.evidenceSupports \in 90..100 /\ verdict.counterAddressed \in 90..100
           /\ record.outcome = "BLOCK" => verdict # Nil /\ WellFormed(verdict)
<1> DEFINE decided == DecideReview(verdict)
           record == [outcome |-> decided.outcome, reason |-> decided.reason,
                      verdict |-> verdict, humanGate |-> "pending"]
<1>1. ReviewCandidate(context, explanation, verdict) # Nil =>
        /\ ReviewCandidate(context, explanation, verdict) = record
        /\ AcceptsExplanation(explanation, context, NoContract)
  BY DEF ReviewCandidate, BuildReviewState
<1>2. CASE verdict = Nil
  <2>1. decided = [outcome |-> "REVIEW", reason |-> "JUDGE_UNAVAILABLE"]
    BY <1>2 DEF DecideReview
  <2> QED BY <1>1, <1>2, <2>1 DEF ReviewRecord, ReviewOutcomes
<1>3. CASE verdict # Nil
  <2>1. \/ ~WellFormed(verdict) /\ decided = [outcome |-> "REVIEW", reason |-> "JUDGE_RESPONSE_INVALID"]
        \/ WellFormed(verdict) /\ decided = [outcome |-> "BLOCK", reason |-> "SEMANTIC_CONFLICT_CANDIDATE"]
        \/ /\ WellFormed(verdict) /\ Support(verdict)
           /\ decided = [outcome |-> "PASS_CANDIDATE", reason |-> "none"]
        \/ WellFormed(verdict) /\ decided = [outcome |-> "REVIEW", reason |-> "SEMANTIC_REVIEW_REQUIRED"]
    BY <1>3 DEF DecideReview
  <2>2. /\ decided.outcome \in ReviewOutcomes
        /\ decided.reason \in {"none", "JUDGE_UNAVAILABLE", "JUDGE_RESPONSE_INVALID",
                               "SEMANTIC_CONFLICT_CANDIDATE", "SEMANTIC_REVIEW_REQUIRED"}
        /\ decided.outcome = "PASS_CANDIDATE" => WellFormed(verdict) /\ Support(verdict)
        /\ decided.outcome = "BLOCK" => WellFormed(verdict)
    BY <2>1 DEF ReviewOutcomes
  <2>3. WellFormed(verdict) /\ Support(verdict) =>
          /\ verdict.decision = "supported" /\ verdict.confidence \in 90..100
          /\ verdict.evidenceSupports \in 90..100 /\ verdict.counterAddressed \in 90..100
    BY DEF WellFormed, Support, Probability
  <2> HIDE DEF decided
  <2>4. record \in ReviewRecord
    BY <1>3, <2>2 DEF ReviewRecord
  <2> QED BY <1>1, <1>3, <2>2, <2>3, <2>4
<1> QED BY <1>2, <1>3

(* A verdict that finds more support, or counter-evidence better dealt     *)
(* with, never ends worse; nor does one that is surer of its support, or   *)
(* less sure of a contradiction (the thresholds of decideReview).          *)
THEOREM BetterScoresNeverHurt ==
  LET Rank(verdict) ==
        CASE DecideReview(verdict).outcome = "BLOCK" -> 0
          [] DecideReview(verdict).outcome = "REVIEW" -> 1
          [] DecideReview(verdict).outcome = "PASS_CANDIDATE" -> 2
  IN \A v, w \in {verdict \in JudgeVerdict \ {Nil} : WellFormed(verdict)} :
       /\ w.decision = v.decision
       /\ w.evidenceSupports >= v.evidenceSupports /\ w.counterAddressed >= v.counterAddressed
       /\ IF v.decision = "contradicted" THEN w.confidence <= v.confidence
          ELSE w.confidence >= v.confidence
       => Rank(w) >= Rank(v)
<1> DEFINE Rank(verdict) ==
             CASE DecideReview(verdict).outcome = "BLOCK" -> 0
               [] DecideReview(verdict).outcome = "REVIEW" -> 1
               [] DecideReview(verdict).outcome = "PASS_CANDIDATE" -> 2
<1>1. ASSUME NEW verdict \in JudgeVerdict \ {Nil}, WellFormed(verdict)
      PROVE  Rank(verdict) = IF Conflict(verdict) THEN 0 ELSE IF Support(verdict) THEN 2 ELSE 1
  <2>1. DecideReview(verdict).outcome =
          IF Conflict(verdict) THEN "BLOCK" ELSE IF Support(verdict) THEN "PASS_CANDIDATE" ELSE "REVIEW"
    BY <1>1 DEF DecideReview
  <2> QED BY <2>1
<1> HIDE DEF Rank
<1>2. ASSUME NEW v \in JudgeVerdict \ {Nil}, NEW w \in JudgeVerdict \ {Nil},
             WellFormed(v), WellFormed(w), w.decision = v.decision,
             w.evidenceSupports >= v.evidenceSupports, w.counterAddressed >= v.counterAddressed,
             IF v.decision = "contradicted" THEN w.confidence <= v.confidence
             ELSE w.confidence >= v.confidence
      PROVE  (Conflict(w) => Conflict(v)) /\ (Support(v) => Support(w))
  BY <1>2 DEF Conflict, Support, JudgeVerdict
<1>3. ASSUME NEW v \in JudgeVerdict \ {Nil}, NEW w \in JudgeVerdict \ {Nil},
             WellFormed(v), WellFormed(w), w.decision = v.decision,
             w.evidenceSupports >= v.evidenceSupports, w.counterAddressed >= v.counterAddressed,
             IF v.decision = "contradicted" THEN w.confidence <= v.confidence
             ELSE w.confidence >= v.confidence
      PROVE  Rank(w) >= Rank(v)
  BY <1>1, <1>2, <1>3
<1> QED BY <1>3 DEF Rank

(* The review forgets what an explanation was asked for: it validates      *)
(* without the contract, so that of the explanations accepted for a        *)
(* question it takes exactly those of a change, and refuses those of an    *)
(* audit or of the effects on a decision (buildReviewState,                *)
(* controlledQuestionPoints).                                              *)
THEOREM OnlyChangesAreReviewed ==
  ASSUME NEW context, NEW question \in Questions, NEW explanation,
         AcceptsExplanation(explanation, context, question)
  PROVE  AcceptsExplanation(explanation, context, NoContract) <=> question.intent = "CHANGE_EXPLAIN"
<1>1. question.intent \in Intents /\ NoContract.intent = Nil /\ Nil \notin Intents
  BY CasesAssumption DEF Questions, NoContract
<1>2. CASE question.intent = "CHANGE_EXPLAIN"
  <2>1. \A point \in Points :
          ControlledPoint(point, context, question.intent) = ControlledPoint(point, context, NoContract.intent)
    BY <1>1, <1>2, Zenon DEF ControlledPoint, ControlledTexts, ControlledGroup, Intents
  <2>2. Sufficiency(context, question) \subseteq Sufficiency(context, NoContract)
    BY <1>1, <1>2 DEF Sufficiency, Intents
  <2>3. AcceptsExplanation(explanation, context, NoContract)
    BY <2>1, <2>2, Zenon DEF AcceptsExplanation
  <2> QED BY <1>2, <2>3
<1>3. CASE question.intent # "CHANGE_EXPLAIN"
  <2> DEFINE Group(intent) == ControlledGroup("directAnswer", Against(context), intent)
             cited == explanation.points["directAnswer"].citations
  <2>1. "directAnswer" \in Points
    BY DEF Points
  <2>2. cited = Group(question.intent)
    BY <2>1 DEF AcceptsExplanation, AcceptsPoint, ControlledPoint
  <2>3. AcceptsExplanation(explanation, context, NoContract) => cited = Group(Nil)
    BY <1>1, <2>1 DEF AcceptsExplanation, AcceptsPoint, ControlledPoint
  <2>4. "Valuation-B5" \in Group(question.intent)
    BY <1>1, <1>3 DEF ControlledGroup, Closure, Intents
  <2>5. "Valuation-B5" \notin Group(Nil)
    <3>1. Group(Nil) = Closure(Sources \cup {"F-02", "A-03"})
      BY <1>1 DEF ControlledGroup, Intents
    <3> QED BY <3>1 DEF Closure, Requires, Sources
  <2> QED BY <1>3, <2>2, <2>3, <2>4, <2>5
<1> QED BY <1>2, <1>3

-----------------------------------------------------------------------------
(* Loops and recursive functions.  What `found', `seen', `first' and       *)
(* `flatten' compute step by step exists, and what each step keeps holds   *)
(* at the end.                                                             *)

(* What holds at the start of a loop and is kept by each step holds of all its states. *)
LEMMA Keeps ==
  ASSUME NEW n \in Nat, NEW T, NEW g, g[0] \in T[0],
         \A i \in 1..n : g[i - 1] \in T[i - 1] => g[i] \in T[i]
  PROVE  \A i \in 0..n : g[i] \in T[i]
<1> DEFINE Bad == {i \in 0..n : g[i] \notin T[i]}
<1> SUFFICES ASSUME Bad # {} PROVE FALSE
  OBVIOUS
<1>1. Bad \in SUBSET Nat
  OBVIOUS
<1> HIDE DEF Bad
<1>2. PICK m \in Bad : \A k \in Bad : m <= k
  BY <1>1, Least
<1>3. m \in 0..n /\ g[m] \notin T[m] /\ m # 0
  BY DEF Bad
<1>4. m - 1 \in 0..n /\ m \in 1..n /\ m - 1 \notin Bad
  BY <1>2, <1>3
<1> QED BY <1>3, <1>4 DEF Bad

(* The states of a loop, one after the other. *)
States(f, n, start, Op) == f = [i \in 0..n |-> IF i = 0 THEN start ELSE Op[<<f[i - 1], i>>]]

LEMMA Iterates ==
  ASSUME NEW n \in Nat, NEW T, NEW Op, NEW start, start \in T[0],
         \A i \in 1..n : \A t \in T[i - 1] : Op[<<t, i>>] \in T[i]
  PROVE  \E f : States(f, n, start, Op) /\ \A i \in 0..n : f[i] \in T[i]
<1> USE DEF States
<1> DEFINE Upto(m, f) == /\ States(f, m, start, Op)
                         /\ \A i \in 0..m : f[i] \in T[i]
           Bad == {m \in 0..n : ~ \E f : Upto(m, f)}
<1>1. Bad = {}
  <2> SUFFICES ASSUME Bad # {} PROVE FALSE
    OBVIOUS
  <2>1. Bad \in SUBSET Nat
    OBVIOUS
  <2> HIDE DEF Bad
  <2>2. PICK m \in Bad : \A k \in Bad : m <= k
    BY <2>1, Least
  <2>3. m \in 0..n /\ ~ \E f : Upto(m, f)
    BY DEF Bad
  <2>4. CASE m = 0
    <3> DEFINE f == [i \in 0..0 |-> start]
    <3>1. Upto(0, f)
      OBVIOUS
    <3> QED BY <2>3, <2>4, <3>1
  <2>5. CASE m # 0
    <3>1. m \in 1..n /\ m - 1 \in 0..n /\ m - 1 \notin Bad
      BY <2>1, <2>2, <2>3, <2>5
    <3>2. PICK g : Upto(m - 1, g)
      BY <3>1 DEF Bad
    <3> DEFINE f == [i \in 0..m |-> IF i = m THEN Op[<<g[m - 1], m>>] ELSE g[i]]
    <3>3. /\ DOMAIN f = 0..m /\ f[m] = Op[<<g[m - 1], m>>]
          /\ \A i \in 0..m - 1 : f[i] = g[i]
      BY <3>1
    <3>4. f = [i \in 0..m |-> f[i]]
      OBVIOUS
    <3> HIDE DEF f
    <3>5. ASSUME NEW i \in 0..m
          PROVE  /\ f[i] = IF i = 0 THEN start ELSE Op[<<f[i - 1], i>>]
                 /\ f[i] \in T[i]
      <4>1. CASE i = m
        <5>1. m - 1 \in 0..m - 1
          BY <3>1
        <5>2. g[m - 1] \in T[m - 1]
          BY <3>2, <5>1
        <5> QED BY <2>5, <3>1, <3>3, <4>1, <5>1, <5>2
      <4>2. CASE i # m
        <5>1. i \in 0..m - 1 /\ (i # 0 => i - 1 \in 0..m - 1)
          BY <3>1, <4>2
        <5>2. g[i] = (IF i = 0 THEN start ELSE Op[<<g[i - 1], i>>]) /\ g[i] \in T[i]
          BY <3>2, <5>1
        <5> QED BY <3>3, <5>1, <5>2
      <4> QED BY <4>1, <4>2
    <3>6. Upto(m, f)
      BY <3>4, <3>5, Zenon
    <3> QED BY <2>3, <3>6
  <2> QED BY <2>4, <2>5
<1>2. n \in 0..n
  OBVIOUS
<1> HIDE DEF Upto
<1>3. \E f : Upto(n, f)
  BY <1>1, <1>2, Zenon
<1> QED BY <1>3, Zenon DEF Upto

-----------------------------------------------------------------------------
(* Sorting. *)

Below(S, R, x) == {y \in S : <<y, x>> \in R}

(* The elements of a finite set in strict order are numbered by how many   *)
(* are below them.                                                         *)
Ordered(S, R) ==
  /\ IsFiniteSet(S)
  /\ \A a \in S : <<a, a>> \notin R
  /\ \A a, b, c \in S : <<a, b>> \in R /\ <<b, c>> \in R => <<a, c>> \in R
  /\ \A a, b \in S : a # b => <<a, b>> \in R \/ <<b, a>> \in R

LEMMA Ranks ==
  ASSUME NEW S, NEW R, Ordered(S, R)
  PROVE  /\ Cardinality(S) \in Nat
         /\ \A k \in 1..Cardinality(S) : \E x \in S : Cardinality(Below(S, R, x)) = k - 1
         /\ \A x \in S : Cardinality(Below(S, R, x)) \in 0..Cardinality(S) - 1
         /\ \A x, y \in S : <<x, y>> \in R => Cardinality(Below(S, R, x)) < Cardinality(Below(S, R, y))
<1> DEFINE n == Cardinality(S)
           Rank(x) == Cardinality(Below(S, R, x))
<1>0. IsFiniteSet(S)
  BY DEF Ordered
<1>1. n \in Nat
  BY <1>0, FS_CardinalityType
<1>2. ASSUME NEW x \in S PROVE IsFiniteSet(Below(S, R, x)) /\ Rank(x) \in 0..n - 1
  <2>1. Below(S, R, x) \in SUBSET (S \ {x})
    BY DEF Below, Ordered
  <2>2. IsFiniteSet(S \ {x}) /\ Cardinality(S \ {x}) = n - 1
    BY <1>0, FS_RemoveElement
  <2> HIDE DEF n
  <2>3. IsFiniteSet(Below(S, R, x)) /\ Cardinality(Below(S, R, x)) <= Cardinality(S \ {x})
    BY <2>1, <2>2, FS_Subset
  <2>4. Rank(x) \in Nat
    BY <2>3, FS_CardinalityType
  <2> QED BY <1>1, <2>2, <2>3, <2>4
<1>3. ASSUME NEW x \in S, NEW y \in S, <<x, y>> \in R PROVE Rank(x) < Rank(y)
  <2>1. Below(S, R, x) \cup {x} \in SUBSET Below(S, R, y) /\ x \notin Below(S, R, x)
    BY <1>3 DEF Below, Ordered
  <2>2. Cardinality(Below(S, R, x) \cup {x}) = Rank(x) + 1
    BY <1>2, <2>1, FS_AddElement
  <2>3. Cardinality(Below(S, R, x) \cup {x}) <= Rank(y)
    BY <1>2, <2>1, FS_Subset
  <2> QED BY <1>2, <2>2, <2>3
<1>4. \A k \in 1..n : \E x \in S : Rank(x) = k - 1
  <2> HIDE DEF n
  <2> DEFINE rank == [x \in S |-> Rank(x)]
  <2>1. rank \in [S -> 0..n - 1]
    BY <1>2
  <2>2. \A x, y \in S : rank[x] = rank[y] => x = y
    <3> SUFFICES ASSUME NEW x \in S, NEW y \in S, Rank(x) = Rank(y), x # y PROVE FALSE
      OBVIOUS
    <3>1. Rank(x) < Rank(y) \/ Rank(y) < Rank(x)
      BY <1>3 DEF Ordered
    <3> QED BY <1>2, <3>1
  <2>3. rank \in Injection(S, 0..n - 1)
    BY <2>1, <2>2 DEF Injection, IsInjective
  <2>4. IsFiniteSet(0..n - 1) /\ Cardinality(0..n - 1) = n
    BY <1>1, FS_Interval
  <2>5. rank \in Surjection(S, 0..n - 1)
    BY <2>3, <2>4, FS_Injection DEF n
  <2>6. \A i \in 0..n - 1 : \E x \in S : rank[x] = i
    BY <2>5 DEF Surjection
  <2> QED BY <1>1, <2>6
<1> QED BY <1>1, <1>2, <1>3, <1>4

Numbered(s, S, R) ==
  /\ s \in [1..Cardinality(S) -> S]
  /\ \A k \in 1..Cardinality(S) : Cardinality(Below(S, R, s[k])) = k - 1

LEMMA Numbers ==
  ASSUME NEW S, NEW R, Ordered(S, R), NEW s,
         s = [k \in 1..Cardinality(S) |-> CHOOSE x \in S : Cardinality(Below(S, R, x)) = k - 1]
  PROVE  Numbered(s, S, R)
<1>1. ASSUME NEW k \in 1..Cardinality(S) PROVE s[k] \in S /\ Cardinality(Below(S, R, s[k])) = k - 1
  <2>1. \E x \in S : Cardinality(Below(S, R, x)) = k - 1
    BY Ranks
  <2>2. s[k] = CHOOSE x \in S : Cardinality(Below(S, R, x)) = k - 1
    OBVIOUS
  <2> QED BY <2>1, <2>2, Zenon
<1>2. s \in [1..Cardinality(S) -> S]
  BY <1>1
<1> QED BY <1>1, <1>2 DEF Numbered

LEMMA Sorts ==
  ASSUME NEW S, NEW R, Ordered(S, R), NEW s, Numbered(s, S, R)
  PROVE  /\ s \in Seq(S) /\ ToSet(s) = S
         /\ \A i, j \in DOMAIN s : i < j => <<s[i], s[j]>> \in R
<1> DEFINE n == Cardinality(S)
           Rank(x) == Cardinality(Below(S, R, x))
<1>1. /\ n \in Nat
      /\ \A x \in S : Rank(x) \in 0..n - 1
      /\ \A x, y \in S : <<x, y>> \in R => Rank(x) < Rank(y)
  BY Ranks
<1>3. s \in [1..n -> S] /\ DOMAIN s = 1..n
  BY DEF Numbered
<1>4. \A k \in 1..n : s[k] \in S /\ Rank(s[k]) = k - 1
  BY DEF Numbered
<1> HIDE DEF n, Rank
<1>5. s \in Seq(S)
  BY <1>1, <1>3, SeqDef, Zenon
<1>6. \A x \in S : x = s[Rank(x) + 1] /\ Rank(x) + 1 \in 1..n
  <2> SUFFICES ASSUME NEW x \in S PROVE x = s[Rank(x) + 1] /\ Rank(x) + 1 \in 1..n
    OBVIOUS
  <2>1. Rank(x) + 1 \in 1..n /\ Rank(x) \in Int
    BY <1>1
  <2>2. s[Rank(x) + 1] \in S /\ Rank(s[Rank(x) + 1]) = Rank(x)
    BY <1>4, <2>1
  <2>3. x # s[Rank(x) + 1] => <<x, s[Rank(x) + 1]>> \in R \/ <<s[Rank(x) + 1], x>> \in R
    BY <2>2 DEF Ordered
  <2> QED BY <1>1, <2>1, <2>2, <2>3
<1>7. ToSet(s) = S
  BY <1>3, <1>4, <1>6 DEF ToSet
<1>8. ASSUME NEW i \in DOMAIN s, NEW j \in DOMAIN s, i < j PROVE <<s[i], s[j]>> \in R
  <2>1. i \in 1..n /\ j \in 1..n
    BY <1>3, <1>8
  <2>2. s[i] \in S /\ s[j] \in S /\ Rank(s[i]) = i - 1 /\ Rank(s[j]) = j - 1
    BY <1>4, <2>1
  <2>3. s[i] # s[j] /\ ~(Rank(s[j]) < Rank(s[i]))
    BY <1>1, <1>8, <2>1, <2>2
  <2> QED BY <1>1, <2>2, <2>3 DEF Ordered
<1> QED BY <1>5, <1>7, <1>8

-----------------------------------------------------------------------------
(* Items in rows. *)

XBefore(a, b) == a.x < b.x \/ (a.x = b.x /\ a.y > b.y)

(* Items of one page, no two at one place, are put in order. *)
Apart(S) ==
  /\ S \subseteq Items /\ IsFiniteSet(S)
  /\ \A a, b \in S : a.x = b.x /\ a.y = b.y => a = b

LEMMA InOrder ==
  ASSUME NEW S, Apart(S)
  PROVE  /\ ByX(S) \in Seq(S) /\ ToSet(ByX(S)) = S
         /\ \A i, j \in DOMAIN ByX(S) : i < j => ByX(S)[i].x <= ByX(S)[j].x
<1> DEFINE R == {p \in S \X S : XBefore(p[1], p[2])}
<1>1. \A a, b \in S : <<a, b>> \in R <=> XBefore(a, b)
  OBVIOUS
<1>2. \A a \in S : a.x \in Int /\ a.y \in Int
  BY DEF Apart, Items
<1>3. Ordered(S, R)
  <2> HIDE DEF R
  <2>1. \A a, b \in S : XBefore(a, b) <=> a.x < b.x \/ (a.x = b.x /\ a.y > b.y)
    BY DEF XBefore
  <2>2. \A a \in S : ~XBefore(a, a)
    BY <1>2, <2>1
  <2>3. \A a, b, c \in S : XBefore(a, b) /\ XBefore(b, c) => XBefore(a, c)
    BY <1>2, <2>1
  <2>4. \A a, b \in S : a # b => XBefore(a, b) \/ XBefore(b, a)
    BY <1>2, <2>1 DEF Apart
  <2> QED BY <1>1, <2>2, <2>3, <2>4 DEF Ordered, Apart
<1>4. \A x \in S : {y \in S : y.x < x.x \/ (y.x = x.x /\ y.y > x.y)} = Below(S, R, x)
  BY <1>1 DEF Below, XBefore
<1>5. ByX(S) = [k \in 1..Cardinality(S) |-> CHOOSE x \in S : Cardinality(Below(S, R, x)) = k - 1]
  <2> HIDE DEF R
  <2>1. ByX(S) = [k \in 1..Cardinality(S) |->
          CHOOSE x \in S : Cardinality({y \in S : y.x < x.x \/ (y.x = x.x /\ y.y > x.y)}) = k - 1]
    BY Zenon DEF ByX, Sorted
  <2>2. ASSUME NEW k PROVE
          (CHOOSE x \in S : Cardinality({y \in S : y.x < x.x \/ (y.x = x.x /\ y.y > x.y)}) = k - 1)
          = CHOOSE x \in S : Cardinality(Below(S, R, x)) = k - 1
    BY <1>4, Zenon
  <2> QED BY <2>1, <2>2, Zenon
<1> HIDE DEF R
<1>6. /\ ByX(S) \in Seq(S) /\ ToSet(ByX(S)) = S
      /\ \A i, j \in DOMAIN ByX(S) : i < j => <<ByX(S)[i], ByX(S)[j]>> \in R
  BY <1>3, <1>5, Numbers, Sorts
<1>7. \A a, b \in S : XBefore(a, b) => a.x <= b.x
  BY <1>2 DEF XBefore
<1>8. \A i \in DOMAIN ByX(S) : ByX(S)[i] \in S
  BY <1>6
<1> HIDE DEF Ordered
<1>9. \A i, j \in DOMAIN ByX(S) : i < j => ByX(S)[i].x <= ByX(S)[j].x
  BY <1>1, <1>6, <1>7, <1>8, Zenon
<1> QED BY <1>6, <1>9

(* Lines, and rows, from the top. *)
Levels(S) ==
  /\ IsFiniteSet(S)
  /\ \A a \in S : a.page \in Int /\ a.y \in Int
  /\ \A a, b \in S : a.page = b.page /\ a.y = b.y => a = b

LEMMA FromTheTop ==
  ASSUME NEW S, Levels(S)
  PROVE  /\ Sorted(S, Higher) \in Seq(S) /\ ToSet(Sorted(S, Higher)) = S
         /\ \A i, j \in DOMAIN Sorted(S, Higher) :
              i < j => Higher(Sorted(S, Higher)[i], Sorted(S, Higher)[j])
<1> DEFINE R == {p \in S \X S : Higher(p[1], p[2])}
           s == Sorted(S, Higher)
<1>1. \A a, b \in S : <<a, b>> \in R <=> Higher(a, b)
  OBVIOUS
<1>2. \A a \in S : a.page \in Int /\ a.y \in Int
  BY DEF Levels
<1>3. Ordered(S, R)
  <2> HIDE DEF R
  <2>1. \A a, b \in S : Higher(a, b) <=> a.page < b.page \/ (a.page = b.page /\ a.y > b.y)
    BY DEF Higher
  <2>2. \A a \in S : ~Higher(a, a)
    BY <1>2, <2>1
  <2>3. \A a, b, c \in S : Higher(a, b) /\ Higher(b, c) => Higher(a, c)
    BY <1>2, <2>1
  <2>4. \A a, b \in S : a # b => Higher(a, b) \/ Higher(b, a)
    BY <1>2, <2>1 DEF Levels
  <2> QED BY <1>1, <2>2, <2>3, <2>4 DEF Ordered, Levels
<1>4. \A x \in S : {y \in S : Higher(y, x)} = Below(S, R, x)
  BY <1>1 DEF Below
<1>5. s = [k \in 1..Cardinality(S) |-> CHOOSE x \in S : Cardinality(Below(S, R, x)) = k - 1]
  <2> HIDE DEF R
  <2>1. s = [k \in 1..Cardinality(S) |->
               CHOOSE x \in S : Cardinality({y \in S : Higher(y, x)}) = k - 1]
    BY Zenon DEF Sorted
  <2>2. ASSUME NEW k PROVE
          (CHOOSE x \in S : Cardinality({y \in S : Higher(y, x)}) = k - 1)
          = CHOOSE x \in S : Cardinality(Below(S, R, x)) = k - 1
    BY <1>4, Zenon
  <2> QED BY <2>1, <2>2, Zenon
<1> HIDE DEF R, s
<1>6. /\ s \in Seq(S) /\ ToSet(s) = S
      /\ \A i, j \in DOMAIN s : i < j => <<s[i], s[j]>> \in R
  <2>1. Numbered(s, S, R)
    BY <1>3, <1>5, Numbers
  <2> QED BY <1>3, <2>1, Sorts
<1>8. \A i \in DOMAIN s : s[i] \in S
  BY <1>6
<1>9. \A i, j \in DOMAIN s : i < j => Higher(s[i], s[j])
  BY <1>1, <1>6, <1>8, Zenon
<1> QED BY <1>6, <1>9 DEF s

Covers(f, line) == f.page = line.page /\ line.y <= f.y /\ f.y - line.y <= Y_TOL

(* Every line lies in the reach of one that begins a row. *)
LEMMA RowsBegin ==
  ASSUME NEW L, NEW lines \in Seq(L), \A l \in L : l.page \in Int /\ l.y \in Int,
         \A i, j \in DOMAIN lines : i < j => Higher(lines[i], lines[j])
  PROVE  /\ FirstLines(lines) \subseteq ToSet(lines)
         /\ \A k \in DOMAIN lines : \E f \in FirstLines(lines) : Covers(f, lines[k])
<1> DEFINE n == Len(lines)
           Upto(i) == {lines[j] : j \in 1..i}
           T == [i \in 0..n |-> {F \in SUBSET Upto(i) : \A k \in 1..i : \E f \in F : Covers(f, lines[k])}]
           Op == [p \in (SUBSET L) \X (1..n) |-> NewLine(p[1], lines[p[2]])]
<1>1. n \in Nat /\ DOMAIN lines = 1..n
  OBVIOUS
<1>2. ASSUME NEW i \in 0..n, NEW F \in T[i] PROVE F \in SUBSET L
  BY <1>1
<1>3. {} \in T[0]
  BY <1>1
<1>4. ASSUME NEW i \in 1..n, NEW F \in T[i - 1] PROVE NewLine(F, lines[i]) \in T[i]
  <2>1. i - 1 \in 0..n /\ i \in 0..n /\ \A k \in 1..i : k # i => k \in 1..i - 1
    BY <1>1
  <2>2. F \in SUBSET Upto(i - 1) /\ \A k \in 1..i - 1 : \E f \in F : Covers(f, lines[k])
    BY <1>4, <2>1
  <2>3. NewLine(F, lines[i]) \in SUBSET Upto(i) /\ F \subseteq NewLine(F, lines[i])
    BY <1>1, <2>2 DEF NewLine
  <2>4. lines[i].page \in Int /\ lines[i].y \in Int
    BY <1>1
  <2>5. ASSUME NEW f \in F, f.page = lines[i].page, f.y - lines[i].y <= Y_TOL
        PROVE  Covers(f, lines[i])
    <3>1. PICK j \in 1..i - 1 : f = lines[j]
      BY <2>2
    <3>2. j \in DOMAIN lines /\ i \in DOMAIN lines /\ j < i
      BY <1>1
    <3>3. Higher(f, lines[i]) /\ f.page \in Int /\ f.y \in Int
      BY <3>1, <3>2
    <3> QED BY <2>4, <2>5, <3>3 DEF Higher, Covers
  <2>6. \E f \in NewLine(F, lines[i]) : Covers(f, lines[i])
    <3>1. Covers(lines[i], lines[i])
      BY <2>4 DEF Covers, Y_TOL
    <3> QED BY <2>5, <3>1 DEF NewLine
  <2> HIDE DEF Upto
  <2>7. \A k \in 1..i : \E f \in NewLine(F, lines[i]) : Covers(f, lines[k])
    BY <2>1, <2>2, <2>3, <2>6
  <2> QED BY <2>1, <2>3, <2>7
<1> HIDE DEF T
<1>5. \A i \in 1..n : \A F \in T[i - 1] : Op[<<F, i>>] = NewLine(F, lines[i]) /\ Op[<<F, i>>] \in T[i]
  <2> SUFFICES ASSUME NEW i \in 1..n, NEW F \in T[i - 1]
               PROVE  Op[<<F, i>>] = NewLine(F, lines[i]) /\ Op[<<F, i>>] \in T[i]
    OBVIOUS
  <2>1. i - 1 \in 0..n
    BY <1>1
  <2>2. F \in SUBSET L
    BY <1>2, <2>1
  <2> QED BY <1>4, <2>2
<1> HIDE DEF Op, n
<1>6. PICK f : States(f, n, {}, Op) /\ \A i \in 0..n : f[i] \in T[i]
  <2>1. \A i \in 1..n : \A F \in T[i - 1] : Op[<<F, i>>] \in T[i]
    BY <1>5
  <2> QED BY <1>1, <1>3, <2>1, Iterates
<1>7. f = [i \in 0..n |-> IF i = 0 THEN {} ELSE NewLine(f[i - 1], lines[i])]
  <2>1. ASSUME NEW i \in 0..n PROVE f[i] = IF i = 0 THEN {} ELSE NewLine(f[i - 1], lines[i])
    <3>1. i # 0 => i \in 1..n /\ i - 1 \in 0..n
      BY <1>1
    <3>2. i # 0 => f[i] = Op[<<f[i - 1], i>>]
      BY <1>6 DEF States
    <3>3. f[0] = {}
      BY <1>1, <1>6 DEF States
    <3> QED BY <1>5, <1>6, <3>1, <3>2, <3>3
  <2>2. f = [i \in 0..n |-> f[i]]
    BY <1>6, Zenon DEF States
  <2> QED BY <2>1, <2>2, Zenon
<1> DEFINE first[k \in 0..n] == IF k = 0 THEN {} ELSE NewLine(first[k - 1], lines[k])
<1>8. first = [i \in 0..n |-> IF i = 0 THEN {} ELSE NewLine(first[i - 1], lines[i])]
  BY <1>7 DEF first
<1>9. FirstLines(lines) = first[n]
  BY DEF FirstLines, first, n
<1> HIDE DEF first
<1>10. \A i \in 0..n : first[i] \in T[i]
  <2>1. first[0] \in T[0]
    BY <1>1, <1>3, <1>8
  <2>2. \A i \in 1..n : first[i - 1] \in T[i - 1] => first[i] \in T[i]
    <3> SUFFICES ASSUME NEW i \in 1..n, first[i - 1] \in T[i - 1] PROVE first[i] \in T[i]
      OBVIOUS
    <3>1. i \in 0..n /\ i # 0
      BY <1>1
    <3>2. first[i] = NewLine(first[i - 1], lines[i])
      BY <1>8, <3>1
    <3> QED BY <1>4, <3>2
  <2> QED BY <1>1, <2>1, <2>2, Keeps
<1>11. first[n] \in T[n] /\ n \in 0..n
  BY <1>1, <1>10
<1> QED BY <1>1, <1>9, <1>11 DEF T, ToSet

(* The items of a row are items of the document, on one page and hardly    *)
(* one below the other.                                                    *)
RowIn(row, items) ==
  /\ row.items \in Seq(items) /\ ToSet(row.items) \subseteq items
  /\ Apart(ToSet(row.items))
  /\ \A a, b \in ToSet(row.items) : a.page = b.page /\ Abs(a.y - b.y) <= Y_TOL

LEMMA ImageFinite ==
  ASSUME NEW S, IsFiniteSet(S), NEW f, DOMAIN f = S
  PROVE  IsFiniteSet({f[x] : x \in S})
<1> DEFINE T == {f[x] : x \in S}
           g == [x \in S |-> f[x]]
<1>1. g \in Surjection(S, T)
  BY DEF Surjection
<1> QED BY <1>1, FS_Surjection

LEMMA RowItems ==
  ASSUME NEW items, Placed(items), NEW first, NEW f \in first,
         \A g \in first : g.page \in Int /\ g.y \in Int,
         \A i \in items : \E g \in first : Covers(g, [page |-> i.page, y |-> i.y])
  PROVE  RowIn([page |-> f.page, y |-> f.y, items |-> ByX(RowOf(f, first, items))], items)
<1> DEFINE S == RowOf(f, first, items)
<1>1. S \subseteq items /\ \A i \in S : i.page = f.page /\ i.y <= f.y
  BY DEF RowOf
<1>2. \A i \in items : i.page \in Int /\ i.y \in Int /\ i.x \in Int
  BY DEF Placed, Items
<1>3. \A i \in S : f.y - i.y <= Y_TOL
  <2> SUFFICES ASSUME NEW i \in S PROVE f.y - i.y <= Y_TOL
    OBVIOUS
  <2>1. PICK g \in first : g.page = i.page /\ i.y <= g.y /\ g.y - i.y <= Y_TOL
    BY <1>1 DEF Covers
  <2>2. g.page = f.page /\ g.y >= i.y
    BY <1>1, <1>2, <2>1
  <2>3. g.y >= f.y
    BY <2>2 DEF RowOf
  <2> QED BY <1>1, <1>2, <2>1, <2>3 DEF Y_TOL
<1>4. Apart(S)
  <2>1. IsFiniteSet(S)
    BY <1>1, FS_Subset DEF Placed
  <2> HIDE DEF S
  <2> QED BY <1>1, <2>1 DEF Apart, Placed
<1> HIDE DEF S
<1>5. ToSet(ByX(S)) = S /\ ByX(S) \in Seq(items)
  <2>1. ToSet(ByX(S)) = S /\ ByX(S) \in Seq(S)
    BY <1>4, InOrder
  <2> QED BY <1>1, <2>1
<1>6. \A a, b \in S : a.page = b.page /\ Abs(a.y - b.y) <= Y_TOL
  BY <1>1, <1>2, <1>3 DEF Abs, Y_TOL
<1> QED BY <1>1, <1>4, <1>5, <1>6 DEF RowIn, S

(* groupRows puts items of the document into its rows. *)
LEMMA Grouped ==
  ASSUME NEW items, Placed(items)
  PROVE  \E X : GroupRows(items) \in Seq(X) /\ \A row \in X : RowIn(row, items)
<1> DEFINE line == [i \in items |-> [page |-> i.page, y |-> i.y]]
           L == {[page |-> i.page, y |-> i.y] : i \in items}
           lines == Lines(items)
           first == FirstLines(lines)
           row == [f \in first |-> [page |-> f.page, y |-> f.y, items |-> ByX(RowOf(f, first, items))]]
           G == {row[f] : f \in first}
<1>1. \A i \in items : i.page \in Int /\ i.y \in Int /\ i.x \in Int
  BY DEF Placed, Items
<1>2. \A l \in L : l.page \in Int /\ l.y \in Int /\ l = [page |-> l.page, y |-> l.y]
  BY <1>1
<1>3. Levels(L)
  <2>1. L = {line[i] : i \in items} /\ DOMAIN line = items
    OBVIOUS
  <2> HIDE DEF line
  <2>2. IsFiniteSet(L)
    BY <2>1, ImageFinite DEF Placed
  <2> HIDE DEF L
  <2> QED BY <1>2, <2>2 DEF Levels
<1>4. lines = Sorted(L, Higher)
  BY DEF Lines
<1>5. \A i \in items : [page |-> i.page, y |-> i.y] \in L
  OBVIOUS
<1> HIDE DEF L, lines
<1>6. /\ lines \in Seq(L) /\ ToSet(lines) = L
      /\ \A i, j \in DOMAIN lines : i < j => Higher(lines[i], lines[j])
  BY <1>3, <1>4, FromTheTop
<1>7. first \subseteq L /\ \A k \in DOMAIN lines : \E f \in first : Covers(f, lines[k])
  BY <1>2, <1>6, RowsBegin
<1> HIDE DEF first
<1>8. \A i \in items : \E f \in first : Covers(f, [page |-> i.page, y |-> i.y])
  <2> SUFFICES ASSUME NEW i \in items
               PROVE  \E f \in first : Covers(f, [page |-> i.page, y |-> i.y])
    OBVIOUS
  <2>1. PICK k \in DOMAIN lines : lines[k] = [page |-> i.page, y |-> i.y]
    BY <1>5, <1>6 DEF ToSet
  <2> QED BY <1>7, <2>1
<1>9. \A f \in first : RowIn(row[f], items)
  BY <1>2, <1>7, <1>8, RowItems
<1>10. Levels(G)
  <2>1. IsFiniteSet(first)
    BY <1>3, <1>7, FS_Subset DEF Levels
  <2>2. DOMAIN row = first
    OBVIOUS
  <2>3. \A f \in first : row[f].page = f.page /\ row[f].y = f.y
    OBVIOUS
  <2> HIDE DEF row
  <2>4. IsFiniteSet(G)
    BY <2>1, <2>2, ImageFinite
  <2>5. \A f, g \in first : f.page = g.page /\ f.y = g.y => f = g
    BY <1>2, <1>7
  <2> QED BY <1>2, <1>7, <2>3, <2>4, <2>5 DEF Levels
<1>11. GroupRows(items) = Sorted(G, Higher)
  <2>1. G = {[page |-> f.page, y |-> f.y, items |-> ByX(RowOf(f, first, items))] : f \in first}
    OBVIOUS
  <2> QED BY <2>1 DEF GroupRows, first, lines
<1>12. \A r \in G : RowIn(r, items)
  BY <1>9
<1> HIDE DEF G
<1>13. Sorted(G, Higher) \in Seq(G)
  BY <1>10, FromTheTop
<1> QED BY <1>11, <1>12, <1>13

-----------------------------------------------------------------------------
(* Metrics of a row. *)

(* A header has an anchor for each of its columns, the change last. *)
Columned(header) ==
  /\ header.comparisonIndex \in {2, 3} /\ Len(header.anchors) = header.comparisonIndex + 1
  /\ header.changePercent \in BOOLEAN

LEMMA HeaderColumned ==
  ASSUME NEW row, NEW rows, DetectHeader(row, rows) # Absent
  PROVE  Columned(DetectHeader(row, rows))
<1>1. \A a, b, c, d : /\ Len(<<a>> \o <<b>> \o <<d>>) = 3
                      /\ Len(<<a>> \o <<b, c>> \o <<d>>) = 4
  <2> TAKE a, b, c, d
  <2> DEFINE X == {a, b, c, d}
  <2>1. <<a>> \in Seq(X) /\ <<b>> \in Seq(X) /\ <<b, c>> \in Seq(X) /\ <<d>> \in Seq(X)
    OBVIOUS
  <2> HIDE DEF X
  <2>2. Len(<<a>>) = 1 /\ Len(<<b>>) = 1 /\ Len(<<b, c>>) = 2 /\ Len(<<d>>) = 1
    OBVIOUS
  <2> QED BY <2>1, <2>2, ConcatProperties
<1> DEFINE header == DetectHeader(row, rows)
<1>2. header.comparisonIndex \in {2, 3} /\ Len(header.anchors) = header.comparisonIndex + 1
  BY <1>1 DEF DetectHeader
<1>3. header.changePercent \in BOOLEAN
  BY DEF DetectHeader
<1> QED BY <1>2, <1>3 DEF Columned

(* The cells of a row stand in it, in order. *)
LEMMA CellsInRow ==
  ASSUME NEW row, NEW header, Apart(ToSet(row.items)), AlignedCells(row, header) # Absent
  PROVE  LET cells == AlignedCells(row, header)
         IN /\ cells \in Seq({i \in ToSet(row.items) : i.text \in NumberTokens})
            /\ Len(cells) = Len(header.anchors)
            /\ \A i, j \in DOMAIN cells : i < j => cells[i].x <= cells[j].x
<1> DEFINE S == {i \in ToSet(row.items) : i.x >= header.labelMax /\ i.text \in NumberTokens}
<1>1. AlignedCells(row, header) = ByX(S) /\ Len(ByX(S)) = Len(header.anchors)
  BY Zenon DEF AlignedCells, NumericItems
<1>2. Apart(S)
  <2>1. S \in SUBSET ToSet(row.items)
    OBVIOUS
  <2>2. IsFiniteSet(S)
    BY <2>1, FS_Subset DEF Apart
  <2> HIDE DEF S
  <2> QED BY <2>1, <2>2 DEF Apart
<1>3. S \subseteq {i \in ToSet(row.items) : i.text \in NumberTokens}
  OBVIOUS
<1> HIDE DEF S
<1>4. /\ ByX(S) \in Seq(S)
      /\ \A i, j \in DOMAIN ByX(S) : i < j => ByX(S)[i].x <= ByX(S)[j].x
  BY <1>2, InOrder
<1> QED BY <1>1, <1>3, <1>4

LEMMA NumbersArePrinted ==
  ASSUME NEW item \in Items, item.text \in NumberTokens, NEW percent \in BOOLEAN
  PROVE  Printed(LayoutNumber(item, percent), item)
<1>1. LayoutNumber(item, percent) \in Int
  BY DEF LayoutNumber, NumberTokens, Items
<1> QED BY <1>1, DocumentAssumption DEF Printed

(* Either no figure is read from a row or three that are printed in it. *)
LEMMA StatedIsPrinted ==
  ASSUME NEW items, Placed(items), NEW row, RowIn(row, items), NEW label, NEW header, Columned(header)
  PROVE  \/ StatedBy(row, label, header) = Metric(<<>>)
         \/ PrintedInLine(StatedBy(row, label, header), items)
<1> SUFFICES ASSUME AlignedCells(row, header) # Absent
             PROVE  PrintedInLine(StatedBy(row, label, header), items)
  BY DEF StatedBy
<1> DEFINE cells == AlignedCells(row, header)
           n == header.comparisonIndex
           percent == "inPercent" \in ToSet(label)
           Numbers3 == <<LayoutNumber(cells[1], percent), LayoutNumber(cells[n], percent),
                         LayoutNumber(cells[Len(cells)], header.changePercent)>>
<1>1. /\ cells \in Seq({i \in ToSet(row.items) : i.text \in NumberTokens})
      /\ Len(cells) = Len(header.anchors)
      /\ \A i, j \in DOMAIN cells : i < j => cells[i].x <= cells[j].x
  BY CellsInRow DEF RowIn
<1>2. StatedBy(row, label, header) = Metric(Numbers3)
  BY DEF StatedBy
<1> HIDE DEF cells
<1>3. n \in {2, 3} /\ Len(cells) = n + 1 /\ {1, n, n + 1} \subseteq DOMAIN cells
  BY <1>1 DEF Columned
<1>4. \A k \in {1, n, n + 1} : cells[k] \in items /\ cells[k] \in ToSet(row.items) /\ cells[k].text \in NumberTokens
  BY <1>1, <1>3 DEF RowIn
<1>5. /\ Metric(Numbers3).current = LayoutNumber(cells[1], percent)
      /\ Metric(Numbers3).comparison = LayoutNumber(cells[n], percent)
      /\ Metric(Numbers3).change = LayoutNumber(cells[n + 1], header.changePercent)
  BY <1>3 DEF Metric, Nth
<1> HIDE DEF percent
<1>6. percent \in BOOLEAN
  BY DEF percent
<1>7. /\ Printed(Metric(Numbers3).current, cells[1])
      /\ Printed(Metric(Numbers3).comparison, cells[n])
      /\ Printed(Metric(Numbers3).change, cells[n + 1])
  <2>1. cells[1] \in Items /\ cells[n] \in Items /\ cells[n + 1] \in Items
    BY <1>4 DEF Placed
  <2>2. cells[1].text \in NumberTokens /\ cells[n].text \in NumberTokens /\ cells[n + 1].text \in NumberTokens
    BY <1>4
  <2> QED BY <1>5, <1>6, <2>1, <2>2, NumbersArePrinted DEF Columned
<1>8. InOneLine(cells[1], cells[n]) /\ InOneLine(cells[n], cells[n + 1]) /\ InOneLine(cells[1], cells[n + 1])
  <2>1. cells[1].x <= cells[n].x /\ cells[n].x <= cells[n + 1].x /\ cells[1].x <= cells[n + 1].x
    BY <1>1, <1>3
  <2> QED BY <1>4, <2>1 DEF InOneLine, RowIn
<1> QED BY <1>2, <1>4, <1>7, <1>8 DEF PrintedInLine

-----------------------------------------------------------------------------
(* Segments. *)

Headers(rows) == {DetectHeader(rows[k], rows) : k \in DOMAIN rows} \ {Absent}

Pages(rows) == {rows[k].page : k \in DOMAIN rows} \cup {0}

Segments(rows) ==
  [header : Headers(rows), page : Pages(rows), continuation : BOOLEAN, rows : Seq(ToSet(rows))]

(* What is known of the segments at any row: their headers and rows are    *)
(* those of the document, and one that goes on exists.                     *)
Founds(rows) ==
  {found \in [segments : Seq(Segments(rows)), state : {"open", "awaited", "closed"},
              page : Pages(rows), problem : BOOLEAN] :
     found.state # "closed" => found.segments # <<>>}

LEMMA Found ==
  ASSUME NEW rows, NEW found \in Founds(rows)
  PROVE  /\ found.segments \in Seq(Segments(rows)) /\ found.page \in Pages(rows)
         /\ found.state \in {"open", "awaited", "closed"} /\ found.problem \in BOOLEAN
         /\ found = [segments |-> found.segments, state |-> found.state, page |-> found.page,
                     problem |-> found.problem]
         /\ found.state # "closed" => found.segments # <<>> /\ Latest(found) \in Segments(rows)
<1>1. /\ found.segments \in Seq(Segments(rows)) /\ found.page \in Pages(rows)
      /\ found.state \in {"open", "awaited", "closed"} /\ found.problem \in BOOLEAN
      /\ found = [segments |-> found.segments, state |-> found.state, page |-> found.page,
                  problem |-> found.problem]
      /\ found.state # "closed" => found.segments # <<>>
  BY DEF Founds
<1>2. found.segments # <<>> => Latest(found) \in Segments(rows)
  BY <1>1 DEF Latest
<1> QED BY <1>1, <1>2

LEMMA PageTurned ==
  ASSUME NEW rows, NEW found \in Founds(rows), NEW k \in DOMAIN rows
  PROVE  TurnPage(found, rows[k], rows) \in Founds(rows)
<1>1. rows[k].page \in Pages(rows)
  BY DEF Pages
<1>2. TurnPage(found, rows[k], rows) = found \/
      \E state \in {"awaited", "closed"} :
        /\ state = "awaited" => found.state = "open"
        /\ TurnPage(found, rows[k], rows) = [found EXCEPT !.page = rows[k].page, !.state = state]
  BY DEF TurnPage
<1> QED BY <1>1, <1>2, Found DEF Founds

LEMMA Begun ==
  ASSUME NEW rows, NEW found \in Founds(rows), NEW header \in Headers(rows), NEW page \in Pages(rows),
         NEW continuation \in BOOLEAN
  PROVE  Begin(found, header, page, continuation) \in Founds(rows)
<1> DEFINE segment == [header |-> header, page |-> page, continuation |-> continuation, rows |-> <<>>]
<1>1. segment \in Segments(rows)
  BY DEF Segments
<1>2. Append(found.segments, segment) \in Seq(Segments(rows)) /\ Append(found.segments, segment) # <<>>
  BY <1>1, Found
<1>3. Begin(found, header, page, continuation)
        = [found EXCEPT !.state = "open", !.segments = Append(found.segments, segment)]
  BY Found DEF Begin
<1> HIDE DEF segment
<1> QED BY <1>2, <1>3, Found DEF Founds

LEMMA HeaderMet ==
  ASSUME NEW rows, NEW found \in Founds(rows), NEW k \in DOMAIN rows
  PROVE  MeetHeader(found, DetectHeader(rows[k], rows), rows[k]) \in Founds(rows)
<1> DEFINE header == DetectHeader(rows[k], rows)
<1>1. CASE header = Absent
  <2>1. \E problem \in BOOLEAN : MeetHeader(found, header, rows[k])
          = [found EXCEPT !.state = "closed", !.problem = problem]
    BY <1>1, Found DEF MeetHeader
  <2> QED BY <2>1, Found DEF Founds
<1>2. CASE header # Absent
  <2>1. header \in Headers(rows) /\ rows[k].page \in Pages(rows)
    BY <1>2 DEF Headers, Pages
  <2> QED BY <1>2, <2>1, Begun DEF MeetHeader
<1> QED BY <1>1, <1>2

LEMMA Continued ==
  ASSUME NEW rows, NEW found \in Founds(rows), found.state = "awaited", NEW k \in DOMAIN rows
  PROVE  Continue(found, rows[k], rows) \in Founds(rows)
<1>1. Latest(found).header \in Headers(rows) /\ rows[k].page \in Pages(rows)
  BY Found DEF Segments, Pages
<1>2. \/ Continue(found, rows[k], rows) = found
      \/ Continue(found, rows[k], rows) = Begin(found, Latest(found).header, rows[k].page, TRUE)
      \/ Continue(found, rows[k], rows) = [found EXCEPT !.state = "closed"]
  BY DEF Continue
<1>3. [found EXCEPT !.state = "closed"] \in Founds(rows)
  BY Found DEF Founds
<1> QED BY <1>1, <1>2, <1>3, Begun

LEMMA RowTaken ==
  ASSUME NEW rows, NEW found \in Founds(rows), NEW k \in DOMAIN rows
  PROVE  TakeRow(found, rows[k]) \in Founds(rows)
<1> DEFINE n == Len(found.segments)
           segment == [found.segments[n] EXCEPT !.rows = Append(found.segments[n].rows, rows[k])]
<1>1. \/ TakeRow(found, rows[k]) = found
      \/ TakeRow(found, rows[k]) = [found EXCEPT !.state = "closed"]
      \/ /\ found.state = "open"
         /\ TakeRow(found, rows[k]) = [found EXCEPT !.segments = [found.segments EXCEPT ![n] = segment]]
  BY Found DEF TakeRow, Latest
<1>2. [found EXCEPT !.state = "closed"] \in Founds(rows)
  BY Found DEF Founds
<1>3. ASSUME found.state = "open"
      PROVE  [found EXCEPT !.segments = [found.segments EXCEPT ![n] = segment]] \in Founds(rows)
  <2>1. n \in Nat /\ n # 0 /\ found.segments[n] \in Segments(rows)
    BY <1>3, Found DEF Latest
  <2>2. rows[k] \in ToSet(rows)
    BY DEF ToSet
  <2>3. Append(found.segments[n].rows, rows[k]) \in Seq(ToSet(rows))
    BY <2>1, <2>2 DEF Segments
  <2>4. segment \in Segments(rows)
    BY <2>1, <2>3 DEF Segments
  <2> HIDE DEF segment
  <2>5. [found.segments EXCEPT ![n] = segment] \in Seq(Segments(rows)) /\ [found.segments EXCEPT ![n] = segment] # <<>>
    BY <2>1, <2>4, Found
  <2> QED BY <1>3, <2>5, Found DEF Founds
<1> QED BY <1>1, <1>2, <1>3

LEMMA Visited ==
  ASSUME NEW rows, NEW found \in Founds(rows), NEW k \in DOMAIN rows
  PROVE  Visit(found, rows[k], rows) \in Founds(rows)
<1> DEFINE turned == TurnPage(found, rows[k], rows)
<1>1. turned \in Founds(rows)
  BY PageTurned
<1> HIDE DEF turned
<1>2. MeetHeader(turned, DetectHeader(rows[k], rows), rows[k]) \in Founds(rows)
  BY <1>1, HeaderMet
<1>3. TakeRow(turned, rows[k]) \in Founds(rows)
  BY <1>1, RowTaken
<1>4. turned.state = "awaited" => TakeRow(Continue(turned, rows[k], rows), rows[k]) \in Founds(rows)
  BY <1>1, Continued, RowTaken
<1> QED BY <1>2, <1>3, <1>4 DEF Visit, turned

(* The loop over the rows ends with segments of the document's own rows.   *)
LEMMA SegmentsDetected ==
  ASSUME NEW X, NEW rows \in Seq(X)
  PROVE  DetectPrimarySegments(rows) \in Founds(rows)
<1> DEFINE n == Len(rows)
           start == [segments |-> <<>>, state |-> "closed", page |-> 0, problem |-> FALSE]
           T == [i \in 0..n |-> Founds(rows)]
           Op == [p \in Founds(rows) \X (1..n) |-> Visit(p[1], rows[p[2]], rows)]
<1>1. n \in Nat /\ DOMAIN rows = 1..n
  OBVIOUS
<1>2. start \in Founds(rows)
  BY DEF Founds, Pages
<1>3. \A i \in 1..n : \A t \in Founds(rows) : Visit(t, rows[i], rows) \in Founds(rows)
  BY <1>1, Visited
<1>4. \A i \in 0..n : T[i] = Founds(rows)
  OBVIOUS
<1>5. \A i \in 1..n : \A t \in Founds(rows) : Op[<<t, i>>] = Visit(t, rows[i], rows)
  OBVIOUS
<1> HIDE DEF Op, n, T, start
<1>6. PICK f : States(f, n, start, Op) /\ \A i \in 0..n : f[i] \in T[i]
  <2>1. \A i \in 1..n : T[i - 1] = Founds(rows) /\ T[i] = Founds(rows)
    BY <1>1, <1>4
  <2>2. ASSUME NEW i \in 1..n, NEW t \in T[i - 1] PROVE Op[<<t, i>>] \in T[i]
    <3>1. t \in Founds(rows) /\ T[i] = Founds(rows)
      BY <2>1
    <3>2. Op[<<t, i>>] = Visit(t, rows[i], rows)
      BY <1>5, <3>1
    <3> QED BY <1>3, <3>1, <3>2
  <2>3. start \in T[0]
    BY <1>1, <1>2, <1>4
  <2> QED BY <1>1, <2>2, <2>3, Iterates
<1>7. f = [i \in 0..n |-> IF i = 0 THEN start ELSE Visit(f[i - 1], rows[i], rows)]
  <2>1. ASSUME NEW i \in 0..n PROVE f[i] = IF i = 0 THEN start ELSE Visit(f[i - 1], rows[i], rows)
    <3>1. i # 0 => i \in 1..n /\ i - 1 \in 0..n
      BY <1>1
    <3>2. i # 0 => f[i] = Op[<<f[i - 1], i>>]
      BY <1>6 DEF States
    <3>3. f[0] = start
      BY <1>1, <1>6 DEF States
    <3> QED BY <1>4, <1>5, <1>6, <3>1, <3>2, <3>3
  <2>2. f = [i \in 0..n |-> f[i]]
    BY <1>6, Zenon DEF States
  <2> QED BY <2>1, <2>2, Zenon
<1> DEFINE found[k \in 0..n] == IF k = 0 THEN start ELSE Visit(found[k - 1], rows[k], rows)
<1>8. found = [i \in 0..n |-> IF i = 0 THEN start ELSE Visit(found[i - 1], rows[i], rows)]
  BY <1>7 DEF found
<1>9. DetectPrimarySegments(rows) = found[n]
  BY DEF DetectPrimarySegments, found, n, start
<1> HIDE DEF found
<1>10. \A i \in 0..n : found[i] \in T[i]
  <2>1. found[0] \in T[0]
    BY <1>1, <1>2, <1>4, <1>8
  <2>2. \A i \in 1..n : found[i - 1] \in T[i - 1] => found[i] \in T[i]
    <3> SUFFICES ASSUME NEW i \in 1..n, found[i - 1] \in T[i - 1] PROVE found[i] \in T[i]
      OBVIOUS
    <3>1. i \in 0..n /\ i - 1 \in 0..n /\ i # 0
      BY <1>1
    <3>2. found[i] = Visit(found[i - 1], rows[i], rows)
      BY <1>8, <3>1
    <3> QED BY <1>3, <1>4, <3>1, <3>2
  <2> QED BY <1>1, <2>1, <2>2, Keeps
<1>11. n \in 0..n
  BY <1>1
<1> QED BY <1>4, <1>9, <1>10, <1>11

-----------------------------------------------------------------------------
(* Metrics of the report. *)

LEMMA Flattened ==
  ASSUME NEW X, NEW ss \in Seq(Seq(X))
  PROVE  FlattenSeq(ss) \in Seq(X)
<1> DEFINE n == Len(ss)
           T == [i \in 0..n |-> Seq(X)]
           Op == [p \in Seq(X) \X (1..n) |-> IF p[2] = 1 THEN ss[p[2]] ELSE p[1] \o ss[p[2]]]
<1>1. n \in Nat /\ \A i \in 1..n : ss[i] \in Seq(X)
  OBVIOUS
<1>2. CASE n = 0
  <2>1. ss = <<>>
    BY <1>2
  <2> QED BY <1>2, <2>1 DEF FlattenSeq
<1>3. CASE n # 0
  <2>1. \A i \in 1..n : \A t \in Seq(X) : (IF i = 1 THEN ss[i] ELSE t \o ss[i]) \in Seq(X)
    BY <1>1
  <2>2. \A i \in 0..n : T[i] = Seq(X)
    OBVIOUS
  <2>8. 0 \in 0..n
    BY <1>1
  <2>9. <<>> \in Seq(X) /\ T[0] = Seq(X)
    BY <2>2, <2>8, EmptySeq, Zenon
  <2>3. \A i \in 1..n : \A t \in Seq(X) : Op[<<t, i>>] = IF i = 1 THEN ss[i] ELSE t \o ss[i]
    OBVIOUS
  <2> HIDE DEF Op, n, T
  <2>4. PICK f : States(f, n, <<>>, Op) /\ \A i \in 0..n : f[i] \in T[i]
    <3>1. \A i \in 1..n : T[i - 1] = Seq(X) /\ T[i] = Seq(X)
      BY <1>1, <2>2
    <3>2. ASSUME NEW i \in 1..n, NEW t \in T[i - 1] PROVE Op[<<t, i>>] \in T[i]
      <4>1. t \in Seq(X) /\ T[i] = Seq(X)
        BY <3>1
      <4>2. Op[<<t, i>>] = IF i = 1 THEN ss[i] ELSE t \o ss[i]
        BY <2>3, <4>1
      <4>3. (IF i = 1 THEN ss[i] ELSE t \o ss[i]) \in Seq(X)
        BY <2>1, <4>1
      <4> QED BY <4>1, <4>2, <4>3, Zenon
    <3>3. <<>> \in T[0]
      BY <2>9, Zenon
    <3> QED BY <1>1, <3>2, <3>3, Iterates
  <2> DEFINE g == [i \in 1..n |-> f[i]]
  <2>5. g = [i \in 1..n |-> IF i = 1 THEN ss[i] ELSE g[i - 1] \o ss[i]]
    <3>1. ASSUME NEW i \in 1..n PROVE g[i] = IF i = 1 THEN ss[i] ELSE g[i - 1] \o ss[i]
      <4>1. i \in 0..n /\ i - 1 \in 0..n /\ i # 0 /\ (i # 1 => i - 1 \in 1..n)
        BY <1>1
      <4>2. f[i] = Op[<<f[i - 1], i>>]
        BY <2>4, <4>1 DEF States
      <4>3. f[i - 1] \in Seq(X)
        BY <2>2, <2>4, <4>1
      <4> QED BY <2>3, <4>1, <4>2, <4>3
    <3>2. g = [i \in 1..n |-> g[i]]
      BY Zenon
    <3> QED BY <3>1, <3>2, Zenon
  <2> HIDE DEF g
  <2> DEFINE flatten[i \in 1..n] == IF i = 1 THEN ss[i] ELSE flatten[i - 1] \o ss[i]
  <2>6. flatten = [i \in 1..n |-> IF i = 1 THEN ss[i] ELSE flatten[i - 1] \o ss[i]]
    BY <2>5 DEF flatten
  <2>7. FlattenSeq(ss) = flatten[n]
    BY <1>3 DEF FlattenSeq, flatten, n
  <2> HIDE DEF flatten
  <2> DEFINE h == [i \in 0..n |-> IF i = 0 THEN <<>> ELSE flatten[i]]
  <2>10. \A i \in 0..n : h[i] \in T[i]
    <3>1. h[0] \in T[0]
      <4>1. h[0] = <<>>
        BY <2>8
      <4> QED BY <2>9, <4>1, Zenon
    <3>2. ASSUME NEW i \in 1..n, h[i - 1] \in T[i - 1] PROVE h[i] \in T[i]
      <4>1. i \in 0..n /\ i - 1 \in 0..n /\ i # 0 /\ (i # 1 => i - 1 \in 1..n /\ i - 1 # 0)
        BY <1>1
      <4>2. h[i] = flatten[i] /\ (i # 1 => h[i - 1] = flatten[i - 1])
        BY <4>1
      <4>3. h[i - 1] \in Seq(X) /\ ss[i] \in Seq(X)
        BY <1>1, <2>2, <3>2, <4>1
      <4>4. flatten[i] = IF i = 1 THEN ss[i] ELSE flatten[i - 1] \o ss[i]
        BY <2>6
      <4>5. flatten[i] \in Seq(X)
        BY <4>2, <4>3, <4>4
      <4> HIDE DEF h
      <4> QED BY <2>2, <4>1, <4>2, <4>5
    <3> HIDE DEF h
    <3> QED BY <1>1, <3>1, <3>2, Keeps
  <2>11. n \in 0..n /\ h[n] = flatten[n]
    BY <1>1, <1>3
  <2> QED BY <2>2, <2>7, <2>10, <2>11
<1> QED BY <1>2, <1>3

LEMMA MinOf ==
  ASSUME NEW K \in SUBSET Nat, K # {}
  PROVE  Min(K) \in K
<1>1. \E n \in K : \A m \in K : n <= m
  BY Least
<1> QED BY <1>1, Zenon DEF Min

(* The first of the rows that name a metric states it.                     *)
LEMMA FirstIsStated ==
  ASSUME NEW E, NEW entries \in Seq(E), NEW key \in DOMAIN FirstStated(entries)
  PROVE  \E e \in E : FirstStated(entries)[key] = e.metric
<1> DEFINE K == {k \in DOMAIN entries : entries[k].key = key}
<1>1. DOMAIN FirstStated(entries) = {entries[k].key : k \in Stating(entries)}
  BY DEF FirstStated
<1>2. K # {} /\ K \in SUBSET Nat /\ K \subseteq DOMAIN entries
  BY <1>1 DEF Stating
<1>3. FirstStated(entries)[key] = entries[Min(K)].metric
  BY <1>1 DEF FirstStated
<1> HIDE DEF K
<1>4. Min(K) \in DOMAIN entries
  BY <1>2, MinOf
<1> QED BY <1>3, <1>4

LEMMA EntriesArePrinted ==
  ASSUME NEW items, Placed(items), NEW X, NEW rows \in Seq(X), \A row \in X : RowIn(row, items),
         NEW segment \in Segments(rows)
  PROVE  /\ PrimaryRows(segment) \in Seq(ToSet(PrimaryRows(segment)))
         /\ \A e \in ToSet(PrimaryRows(segment)) :
              e.metric = Metric(<<>>) \/ PrintedInLine(e.metric, items)
<1>1. segment.rows \in Seq(ToSet(rows)) /\ segment.header \in Headers(rows)
  BY DEF Segments
<1>2. Columned(segment.header)
  BY <1>1, HeaderColumned DEF Headers
<1>3. \A k \in DOMAIN segment.rows : RowIn(segment.rows[k], items)
  <2>1. ToSet(rows) \subseteq X
    BY DEF ToSet
  <2> QED BY <1>1, <2>1
<1> DEFINE label(k) == PrimaryRowLabel(segment.rows[k], segment.rows, segment.header)
           entry(k) == PrimaryEntry(segment.rows[k], label(k), segment.header)
<1>4. PrimaryRows(segment) = [k \in DOMAIN segment.rows |-> entry(k)]
  BY DEF PrimaryRows
<1>5. \A k \in DOMAIN segment.rows : entry(k).metric = StatedBy(segment.rows[k], label(k), segment.header)
  BY DEF PrimaryEntry
<1> HIDE DEF entry, label
<1>6. \A k \in DOMAIN segment.rows : entry(k).metric = Metric(<<>>) \/ PrintedInLine(entry(k).metric, items)
  BY <1>2, <1>3, <1>5, StatedIsPrinted
<1>7. PrimaryRows(segment) \in Seq(ToSet(PrimaryRows(segment)))
  <2>1. DOMAIN segment.rows = 1..Len(segment.rows) /\ Len(segment.rows) \in Nat
    BY <1>1
  <2>2. PrimaryRows(segment) \in [1..Len(segment.rows) -> ToSet(PrimaryRows(segment))]
    BY <1>4, <2>1 DEF ToSet
  <2> QED BY <2>1, <2>2, SeqDef, Zenon
<1>8. \A e \in ToSet(PrimaryRows(segment)) : \E k \in DOMAIN segment.rows : e = entry(k)
  BY <1>4 DEF ToSet
<1> QED BY <1>6, <1>7, <1>8, Zenon

(* Whatever the entries of a document, a metric kept of them is printed.   *)
LEMMA MetricsArePrinted ==
  ASSUME NEW items, Placed(items)
  PROVE  LET metrics == ParseV06(items).metrics
         IN \A key \in DOMAIN metrics : metrics[key] = Metric(<<>>) \/ PrintedInLine(metrics[key], items)
<1> DEFINE rows == GroupRows(items)
           segments == DetectPrimarySegments(rows).segments
           stated == [k \in DOMAIN segments |-> PrimaryRows(segments[k])]
           E == UNION {ToSet(stated[k]) : k \in DOMAIN stated}
           entries == FlattenSeq(stated)
<1>1. PICK X : rows \in Seq(X) /\ \A row \in X : RowIn(row, items)
  BY Grouped
<1>2. ParseV06(items).metrics = FirstStated(entries)
  BY DEF ParseV06, ReadSegments, Judge, Result
<1> HIDE DEF rows
<1>3. segments \in Seq(Segments(rows))
  BY <1>1, SegmentsDetected, Found
<1> HIDE DEF segments
<1>4. \A k \in DOMAIN segments :
        /\ stated[k] \in Seq(ToSet(stated[k]))
        /\ \A e \in ToSet(stated[k]) : e.metric = Metric(<<>>) \/ PrintedInLine(e.metric, items)
  <2>1. \A k \in DOMAIN segments : segments[k] \in Segments(rows)
    BY <1>3
  <2> QED BY <1>1, <2>1, EntriesArePrinted
<1>5. stated \in Seq(Seq(E))
  <2>1. DOMAIN segments = 1..Len(segments) /\ Len(segments) \in Nat /\ DOMAIN stated = DOMAIN segments
    BY <1>3
  <2>2. stated = [k \in DOMAIN segments |-> stated[k]]
    OBVIOUS
  <2>3. \A k \in DOMAIN segments : ToSet(stated[k]) \subseteq E
    OBVIOUS
  <2> HIDE DEF E, stated
  <2>4. \A k \in DOMAIN segments : stated[k] \in Seq(E)
    BY <1>4, <2>3, SeqMonotonic
  <2>5. stated \in [1..Len(segments) -> Seq(E)]
    BY <2>1, <2>2, <2>4
  <2>6. Seq(Seq(E)) = UNION {[1..m -> Seq(E)] : m \in Nat}
    BY SeqDef
  <2> QED BY <2>1, <2>5, <2>6, Zenon
<1>6. \A e \in E : e.metric = Metric(<<>>) \/ PrintedInLine(e.metric, items)
  BY <1>4
<1> HIDE DEF E, stated
<1>7. entries \in Seq(E)
  BY <1>5, Flattened
<1> HIDE DEF entries
<1>8. \A key \in DOMAIN FirstStated(entries) : \E e \in E : FirstStated(entries)[key] = e.metric
  BY <1>7, FirstIsStated
<1> QED BY <1>2, <1>6, <1>8, Zenon

-----------------------------------------------------------------------------
(* The total of non-recurring items. *)

(* A total is a number of its row.                                         *)
LEMMA TotalIsPrinted ==
  ASSUME NEW items, NEW row, RowIn(row, items)
  PROVE  TotalIn(row) = Absent \/ \E item \in items : TotalIn(row) = CellNumber(item)
<1> DEFINE heading == [row EXCEPT !.items = <<[text |-> "nonRecurring"]>>]
           rows == <<heading, row>>
           numbers == {n \in DOMAIN row.items : CellNumber(row.items[n]) # Absent}
           InSection(k) ==
             \E h \in 1..k - 1 : /\ "nonRecurring" \in Texts(rows[h])
                                 /\ \A j \in h + 1..k : "discussion" \notin Texts(rows[j])
           IsTotal(r) ==
             \E n \in DOMAIN r.items :
               /\ n > 1 /\ r.items[1].text = "total"
               /\ CellNumber(r.items[n]) # Absent
           totals == {k \in DOMAIN rows : InSection(k) /\ "nonRecurring" \notin Texts(rows[k])
                                           /\ IsTotal(rows[k])}
           found == rows[Min(totals)].items
<1>1. TotalIn(row) = IF totals = {} THEN Absent
        ELSE CellNumber(found[Min({n \in DOMAIN found : CellNumber(found[n]) # Absent})])
  BY DEF TotalIn, NonRecurringTotal
<1>2. totals \subseteq {2}
  <2>1. DOMAIN rows = {1, 2} /\ ~InSection(1)
    OBVIOUS
  <2> QED BY <2>1
<1>3. CASE totals # {}
  <2>1. totals = {2} /\ IsTotal(rows[2]) /\ rows[2] = row
    BY <1>2, <1>3
  <2> HIDE DEF totals
  <2>2. Min(totals) = 2
    <3>1. totals \in SUBSET Nat /\ totals # {}
      BY <2>1
    <3> QED BY <2>1, <3>1, MinOf
  <2>3. found = row.items
    BY <2>1, <2>2
  <2> HIDE DEF found
  <2>4. PICK n \in DOMAIN row.items : CellNumber(row.items[n]) # Absent
    BY <2>1
  <2>5. TotalIn(row) = CellNumber(row.items[Min(numbers)])
    BY <1>1, <1>3, <2>3
  <2>6. numbers # {} /\ numbers \in SUBSET Nat
    BY <2>4 DEF RowIn
  <2>7. Min(numbers) \in numbers
    <3> HIDE DEF numbers
    <3> QED BY <2>6, MinOf
  <2>8. Min(numbers) \in DOMAIN row.items
    BY <2>7
  <2> QED BY <2>5, <2>8 DEF RowIn, ToSet
<1> QED BY <1>1, <1>3

(* What is known of the totals at any row.                                 *)
Totals(items) == {CellNumber(item) : item \in items} \cup {Absent}

Seen(rows, items) ==
  [page : Pages(rows), inside : BOOLEAN, declared : BOOLEAN, first : Totals(items), fits : BOOLEAN]

LEMMA TotalChecked ==
  ASSUME NEW items, NEW rows, NEW seen \in Seen(rows, items), NEW k \in DOMAIN rows,
         RowIn(rows[k], items)
  PROVE  CheckTotal(seen, rows[k]) \in Seen(rows, items)
<1>1. rows[k].page \in Pages(rows) /\ TotalIn(rows[k]) \in Totals(items)
  BY TotalIsPrinted DEF Pages, Totals
<1>2. \A d, i, f \in BOOLEAN : \A t \in Totals(items) : \A p \in Pages(rows) :
        [seen EXCEPT !.page = p, !.inside = i, !.declared = d, !.first = t, !.fits = f] \in Seen(rows, items)
  BY DEF Seen
<1>3. /\ seen.inside \in BOOLEAN /\ seen.declared \in BOOLEAN /\ seen.fits \in BOOLEAN
      /\ seen.first \in Totals(items)
  BY DEF Seen
<1>4. Declares(rows[k]) \in BOOLEAN
  BY DEF Declares
<1> QED BY <1>1, <1>3, <1>4 DEF CheckTotal, Seen

LEMMA TotalsChecked ==
  ASSUME NEW items, NEW X, NEW rows \in Seq(X), \A row \in X : RowIn(row, items)
  PROVE  NonRecurringChecked(rows) \in Seen(rows, items)
<1> DEFINE n == Len(rows)
           start == [page |-> 0, inside |-> FALSE, declared |-> FALSE, first |-> Absent, fits |-> TRUE]
           T == [i \in 0..n |-> Seen(rows, items)]
           Op == [p \in Seen(rows, items) \X (1..n) |-> CheckTotal(p[1], rows[p[2]])]
<1>1. n \in Nat /\ DOMAIN rows = 1..n /\ \A i \in 1..n : RowIn(rows[i], items)
  OBVIOUS
<1>2. start \in Seen(rows, items)
  BY DEF Seen, Pages, Totals
<1>3. \A i \in 1..n : \A t \in Seen(rows, items) : CheckTotal(t, rows[i]) \in Seen(rows, items)
  BY <1>1, TotalChecked
<1>4. \A i \in 0..n : T[i] = Seen(rows, items)
  OBVIOUS
<1>5. \A i \in 1..n : \A t \in Seen(rows, items) : Op[<<t, i>>] = CheckTotal(t, rows[i])
  OBVIOUS
<1> HIDE DEF Op, n, T, start
<1>6. PICK f : States(f, n, start, Op) /\ \A i \in 0..n : f[i] \in T[i]
  <2>1. \A i \in 1..n : T[i - 1] = Seen(rows, items) /\ T[i] = Seen(rows, items)
    BY <1>1, <1>4
  <2>2. ASSUME NEW i \in 1..n, NEW t \in T[i - 1] PROVE Op[<<t, i>>] \in T[i]
    <3>1. t \in Seen(rows, items) /\ T[i] = Seen(rows, items)
      BY <2>1
    <3>2. Op[<<t, i>>] = CheckTotal(t, rows[i])
      BY <1>5, <3>1
    <3> QED BY <1>3, <3>1, <3>2
  <2>3. start \in T[0]
    BY <1>1, <1>2, <1>4
  <2> QED BY <1>1, <2>2, <2>3, Iterates
<1>7. f = [i \in 0..n |-> IF i = 0 THEN start ELSE CheckTotal(f[i - 1], rows[i])]
  <2>1. ASSUME NEW i \in 0..n PROVE f[i] = IF i = 0 THEN start ELSE CheckTotal(f[i - 1], rows[i])
    <3>1. i # 0 => i \in 1..n /\ i - 1 \in 0..n
      BY <1>1
    <3>2. i # 0 => f[i] = Op[<<f[i - 1], i>>]
      BY <1>6 DEF States
    <3>3. f[0] = start
      BY <1>1, <1>6 DEF States
    <3> QED BY <1>4, <1>5, <1>6, <3>1, <3>2, <3>3
  <2>2. f = [i \in 0..n |-> f[i]]
    BY <1>6, Zenon DEF States
  <2> QED BY <2>1, <2>2, Zenon
<1> DEFINE seen[k \in 0..n] == IF k = 0 THEN start ELSE CheckTotal(seen[k - 1], rows[k])
<1>8. seen = [i \in 0..n |-> IF i = 0 THEN start ELSE CheckTotal(seen[i - 1], rows[i])]
  BY <1>7 DEF seen
<1>9. NonRecurringChecked(rows) = seen[n]
  BY DEF NonRecurringChecked, seen, n, start
<1> HIDE DEF seen
<1>10. \A i \in 0..n : seen[i] \in T[i]
  <2>1. seen[0] \in T[0]
    BY <1>1, <1>2, <1>4, <1>8
  <2>2. \A i \in 1..n : seen[i - 1] \in T[i - 1] => seen[i] \in T[i]
    <3> SUFFICES ASSUME NEW i \in 1..n, seen[i - 1] \in T[i - 1] PROVE seen[i] \in T[i]
      OBVIOUS
    <3>1. i \in 0..n /\ i - 1 \in 0..n /\ i # 0
      BY <1>1
    <3>2. seen[i] = CheckTotal(seen[i - 1], rows[i])
      BY <1>8, <3>1
    <3> QED BY <1>3, <1>4, <3>1, <3>2
  <2> QED BY <1>1, <2>1, <2>2, Keeps
<1>11. n \in 0..n
  BY <1>1
<1> QED BY <1>4, <1>9, <1>10, <1>11

(* What V0.6 reads and promotes is printed in the document.                *)
LEMMA ParsedIsPrinted ==
  ASSUME NEW items, Placed(items)
  PROVE  LET result == ParseV06Strict(items)
         IN /\ result.promoted \in BOOLEAN
            /\ \A key \in DOMAIN result.metrics :
                 \/ result.metrics[key] = Metric(<<>>)
                 \/ PrintedInLine(result.metrics[key], items)
            /\ result.promoted =>
                 /\ \A key \in DOMAIN result.metrics : PrintedInLine(result.metrics[key], items)
                 /\ \E item \in items : result.nonRecurring = CellNumber(item)
<1> DEFINE rows == GroupRows(items)
           found == DetectPrimarySegments(rows)
           stated == [k \in DOMAIN found.segments |-> PrimaryRows(found.segments[k])]
           entries == FlattenSeq(stated)
           total == NonRecurringChecked(rows)
           result == ParseV06Strict(items)
<1>1. PICK X : rows \in Seq(X) /\ \A row \in X : RowIn(row, items)
  BY Grouped
<1>2. \A key \in DOMAIN result.metrics :
        result.metrics[key] = Metric(<<>>) \/ PrintedInLine(result.metrics[key], items)
  <2>1. result.metrics = ParseV06(items).metrics
    BY DEF ParseV06Strict, Strict, ParseV06, ReadSegments, Judge, Result
  <2> HIDE DEF result
  <2> QED BY <2>1, MetricsArePrinted
<1>3. /\ result.promoted \in BOOLEAN /\ result.nonRecurring = total.first
      /\ result.promoted => Validated(result.metrics, total.first, {"roe"})
  BY DEF ParseV06Strict, Strict, ParseV06, ReadSegments, Judge, Result
<1>4. Metric(<<>>).current = Absent
  BY DEF Metric, Nth
<1> HIDE DEF result
<1>5. total.first \in Totals(items)
  <2> HIDE DEF rows
  <2>1. total \in Seen(rows, items)
    BY <1>1, TotalsChecked
  <2> HIDE DEF total
  <2> QED BY <2>1 DEF Seen
<1> HIDE DEF total
<1>6. result.promoted =>
        /\ total.first # Absent
        /\ \A key \in DOMAIN result.metrics : AllStated(result.metrics[key])
  BY <1>3 DEF Validated, NumericallyValid
<1>7. \A metric : AllStated(metric) => metric # Metric(<<>>)
  BY <1>4 DEF AllStated
<1>8. result.promoted =>
        \A key \in DOMAIN result.metrics : PrintedInLine(result.metrics[key], items)
  BY <1>2, <1>6, <1>7, Zenon
<1>9. result.promoted => \E item \in items : result.nonRecurring = CellNumber(item)
  BY <1>3, <1>5, <1>6 DEF Totals
<1> QED BY <1>2, <1>3, <1>8, <1>9, Zenon DEF result

-----------------------------------------------------------------------------
(* The research engine.                                                    *)

(* A document under review is one that can be parsed, and carries no label *)
(* yet; a report has a period, and a growth if it states one.              *)
EngineInv ==
  /\ document # Absent =>
       /\ Placed(document.items) /\ \A e \in document.edits : Placed(e.add)
       /\ current = Nil
  /\ CasesTypeOK

LEMMA PrintedIsInt ==
  ASSUME NEW items, Placed(items), NEW item \in items, NEW figure, Printed(figure, item)
  PROVE  figure \in Int
<1>1. PICK percent \in BOOLEAN : figure = LayoutNumber(item, percent) /\ figure # Absent
  BY DEF Printed
<1>2. item.value \in Int
  BY DEF Placed, Items
<1> QED BY <1>1, <1>2 DEF LayoutNumber

(* The growth of a parsed report, if any, is a number.                     *)
LEMMA ParsedHasPeriod ==
  ASSUME NEW items, Placed(items)
  PROVE  LET parsed == ParseResearchReport(items)
         IN parsed.number \in Int /\ parsed.adjustedYoy \in Int \cup {Nil}
<1> DEFINE result == ParseV06Strict(items)
           key == "adjusted_np"
           change == IF key \in DOMAIN result.metrics THEN result.metrics[key].change ELSE Absent
<1>1. key \in DOMAIN result.metrics =>
        result.metrics[key] = Metric(<<>>) \/ PrintedInLine(result.metrics[key], items)
  BY ParsedIsPrinted
<1>2. ParseResearchReport(items).number = 9 /\
      ParseResearchReport(items).adjustedYoy = IF change = Absent THEN Nil ELSE 10 * change
  BY DEF ParseResearchReport, ReportOf
<1> HIDE DEF result
<1>3. Metric(<<>>).change = Absent
  BY DEF Metric, Nth
<1>4. \A metric : PrintedInLine(metric, items) => metric.change \in Int
  BY PrintedIsInt DEF PrintedInLine
<1>5. change \in Int \cup {Absent}
  BY <1>1, <1>3, <1>4
<1> HIDE DEF change
<1> QED BY <1>2, <1>5

(* A document stays in order when it is typeset differently.               *)
LEMMA TypesetInOrder ==
  ASSUME NEW e, EngineInv, document # Absent, Typeset(e)
  PROVE  Placed(document'.items) /\ \A f \in document'.edits : Placed(f.add)
<1> DEFINE items == (document.items \ e.remove) \cup e.add
<1>1. Placed(document.items) /\ Placed(e.add) /\ \A f \in document.edits : Placed(f.add)
  BY DEF EngineInv, Typeset, Alteration
<1>2. \A i \in e.add, j \in document.items \ e.remove :
        <<i.page, i.y, i.x>> # <<j.page, j.y, j.x>>
  BY DEF Typeset, Alteration
<1>3. Placed(items)
  <2>1. IsFiniteSet(document.items \ e.remove)
    <3>1. document.items \ e.remove \in SUBSET document.items
      OBVIOUS
    <3> QED BY <1>1, <3>1, FS_Subset DEF Placed
  <2>2. IsFiniteSet(items)
    BY <1>1, <2>1, FS_Union DEF Placed
  <2>3. items \subseteq Items
    BY <1>1 DEF Placed
  <2>4. \A i, j \in items : <<i.page, i.y, i.x>> = <<j.page, j.y, j.x>> => i = j
    BY <1>1, <1>2 DEF Placed
  <2> QED BY <2>2, <2>3, <2>4 DEF Placed
<1>4. document'.items = items /\ document'.edits \subseteq document.edits
  BY DEF Typeset, Alteration
<1> QED BY <1>1, <1>3, <1>4

LEMMA EngineSettles == EngineSpec => []EngineInv
<1>1. EngineInit => EngineInv
  <2> SUFFICES ASSUME EngineInit PROVE EngineInv
    OBVIOUS
  <2>1. Placed(document.items) /\ \A e \in document.edits : Placed(e.add)
    BY DocumentAssumption DEF EngineInit
  <2>2. report.number \in Int /\ report.adjustedYoy \in Int \cup {Nil}
    BY <2>1, ParsedHasPeriod DEF EngineInit
  <2> QED BY <2>1, <2>2 DEF EngineInit, EngineInv, CasesTypeOK, Labels
<1>2. EngineInv /\ [EngineNext]_engineVars => EngineInv'
  <2> SUFFICES ASSUME EngineInv, [EngineNext]_engineVars PROVE EngineInv'
    OBVIOUS
  <2>1. ASSUME document # Absent, Placed(document'.items), \A f \in document'.edits : Placed(f.add), Parse
        PROVE  EngineInv'
    <3>1. report'.number \in Int /\ report'.adjustedYoy \in Int \cup {Nil}
      BY <2>1, ParsedHasPeriod DEF Parse
    <3>2. current' = Nil /\ prior' \in Seq(Rows)
      BY <2>1 DEF Parse, EngineInv, CasesTypeOK
    <3> QED BY <2>1, <3>1, <3>2 DEF EngineInv, CasesTypeOK, Labels
  <2>2. ASSUME document # Absent, NEW e \in document.edits, Typeset(e), Parse PROVE EngineInv'
    BY <2>1, <2>2, TypesetInOrder
  <2>3. ASSUME document # Absent, Refuse, Parse PROVE EngineInv'
    <3>1. Placed(document'.items) /\ \A f \in document'.edits : Placed(f.add)
      BY <2>3, DocumentAssumption DEF Refuse
    <3> QED BY <2>1, <2>3, <3>1
  <2>4. ASSUME document # Absent, AcceptReport PROVE EngineInv'
    BY <2>4 DEF AcceptReport, EngineInv, CasesTypeOK
  <2>5. ASSUME document = Absent, CasesNext, UNCHANGED document PROVE EngineInv'
    <3>1. CasesTypeOK'
      BY <2>5, CasesStep DEF EngineInv
    <3> QED BY <2>5, <3>1 DEF EngineInv
  <2>6. CASE UNCHANGED engineVars
    BY <2>6 DEF engineVars, casesVars, EngineInv, CasesTypeOK
  <2> QED BY <2>2, <2>3, <2>4, <2>5, <2>6 DEF EngineNext
<1> QED BY <1>1, <1>2, PTL DEF EngineSpec

(* However a document is typeset, no figure of a report that may become    *)
(* evidence is made up or put together from several: its metrics are       *)
(* numbers of one line, in their order, and its total is one that is       *)
(* printed (parseFinancialReportV06Strict, statedMetric,                   *)
(* nonRecurringWithValidation).                                            *)
THEOREM FiguresPrinted == EngineSpec => []FiguresArePrinted
<1>1. EngineInv => FiguresArePrinted
  BY ParsedIsPrinted DEF EngineInv, FiguresArePrinted
<1> QED BY <1>1, EngineSettles, PTL

(* What is decided on a report that was parsed follows the policies, as it *)
(* does on one that is given: the criterion, the opinions and what the     *)
(* model is offered (parseResearchReport, reviewAndRun).                   *)
THEOREM EngineDecides ==
  EngineSpec => [](TriggeredByPolicy /\ OnlyOpinionsOpenGates /\ OfferedIsAccepted)
<1>1. EngineInv => TriggeredByPolicy
  BY PolicyFollowed DEF EngineInv, TriggeredByPolicy
<1>2. OnlyOpinionsOpenGates
  BY OpinionNeeded DEF OnlyOpinionsOpenGates
<1>3. OfferedIsAccepted
  BY OffersAccepted
<1> QED BY <1>1, <1>2, <1>3, EngineSettles, PTL
-----------------------------------------------------------------------------
(* The budget of a batch of questions.                                     *)

LEMMA BudgetIs ==
  /\ QUESTION_BATCH_BUDGET.maxRequests = 6
  /\ QUESTION_BATCH_BUDGET.maxInputEstimatePerRequest = 16000
  /\ QUESTION_BATCH_BUDGET.maxOutputTokensPerRequest = 6000
  /\ QUESTION_BATCH_BUDGET.maxInputEstimateTotal = 96000
  /\ QUESTION_BATCH_BUDGET.maxOutputTokensTotal = 36000
  /\ QUESTION_BATCH_BUDGET.framingReserve = 4096
  /\ QUESTION_BATCH_BUDGET.estimateCeilingUsdMicros = 350000
BY SMT DEF QUESTION_BATCH_BUDGET

(* What n requests within their limits may have used. *)
Sums == [inputTokens : Nat, outputTokens : Nat]
Spent(n) == {t \in Sums : t.inputTokens <= 16000 * n /\ t.outputTokens <= 6000 * n}

LEMMA OneMoreTerm ==
  ASSUME NEW n \in Nat, NEW a \in Nat, NEW b \in Nat, NEW per \in Nat, a <= per * n, b <= per
  PROVE  a + b <= per * (n + 1)
<1>1. per * (n + 1) = per * n + per
  OBVIOUS
<1>2. per * n \in Nat
  OBVIOUS
<1> QED BY <1>1, <1>2

LEMMA Most ==
  ASSUME NEW n \in Nat, NEW m \in Nat, NEW a \in Nat, NEW per \in Nat, a <= per * n, n <= m
  PROVE  a <= per * m
<1>1. PICK d \in Nat : m = n + d
  <2>1. m - n \in Nat /\ m = n + (m - n)
    OBVIOUS
  <2> QED BY <2>1
<1>2. per * m = per * n + per * d
  BY <1>1
<1>3. per * n \in Nat /\ per * d \in Nat
  OBVIOUS
<1> QED BY <1>2, <1>3

LEMMA OneMoreSpent ==
  ASSUME NEW n \in Nat, NEW t \in Spent(n), NEW usage \in Usage, WithinLimits(usage)
  PROVE  Plus(t, usage) \in Spent(n + 1)
<1>1. /\ t.inputTokens \in Nat /\ t.inputTokens <= 16000 * n
      /\ t.outputTokens \in Nat /\ t.outputTokens <= 6000 * n
  BY DEF Spent, Sums
<1>2. usage.inputTokens \in Nat /\ usage.outputTokens \in Nat
  BY DEF Usage, SafeCounts
<1>3. usage.inputTokens <= 16000 /\ usage.outputTokens <= 6000
  BY BudgetIs DEF WithinLimits
<1>4. /\ t.inputTokens + usage.inputTokens <= 16000 * (n + 1)
      /\ t.outputTokens + usage.outputTokens <= 6000 * (n + 1)
  BY <1>1, <1>2, <1>3, OneMoreTerm
<1> QED BY <1>1, <1>2, <1>4 DEF Plus, Spent, Sums

LEMMA MostSpent ==
  ASSUME NEW n \in Nat, NEW m \in Nat, n <= m, NEW t \in Spent(n)
  PROVE  /\ t.inputTokens \in Nat /\ t.inputTokens <= 16000 * m
         /\ t.outputTokens \in Nat /\ t.outputTokens <= 6000 * m
<1>1. /\ t.inputTokens \in Nat /\ t.inputTokens <= 16000 * n
      /\ t.outputTokens \in Nat /\ t.outputTokens <= 6000 * n
  BY DEF Spent, Sums
<1> QED BY <1>1, Most

(* Requests that succeeded have used no more than so many requests may. *)
LEMMA SpentWithin ==
  ASSUME NEW requests \in Seq(Receipts), Succeeded(requests)
  PROVE  Summarize(requests) \in Spent(Len(requests))
<1> DEFINE n == Len(requests)
           T == [i \in 0..n |-> Spent(i)]
           Op == [p \in Sums \X (1..n) |-> Plus(p[1], Counted(requests[p[2]]))]
<1>1. n \in Nat /\ DOMAIN requests = 1..n
  OBVIOUS
<1>2. \A i \in 0..n : T[i] = Spent(i) /\ Spent(i) \in SUBSET Sums
  <2>1. ASSUME NEW i \in 0..n PROVE T[i] = Spent(i)
    OBVIOUS
  <2>2. ASSUME NEW i \in 0..n PROVE Spent(i) \subseteq Sums
    BY DEF Spent
  <2> QED BY <2>1, <2>2
<1>3. NoUsage \in Spent(0)
  BY DEF NoUsage, Spent, Sums
<1>4. ASSUME NEW i \in 1..n, NEW t \in Spent(i - 1) PROVE Plus(t, Counted(requests[i])) \in Spent(i)
  <2>1. requests[i] \in Receipts /\ requests[i].known /\ WithinLimits(requests[i].usage)
    BY <1>1 DEF Succeeded
  <2>2. Counted(requests[i]) \in Usage /\ WithinLimits(Counted(requests[i]))
    BY <2>1 DEF Counted, Receipts
  <2>3. i - 1 \in Nat /\ i - 1 + 1 = i
    BY <1>1
  <2> QED BY <2>2, <2>3, OneMoreSpent
<1>5. \A i \in 1..n : \A t \in Sums : Op[<<t, i>>] = Plus(t, Counted(requests[i]))
  OBVIOUS
<1> HIDE DEF Op, n, T
<1>6. \A i \in 1..n : i \in 0..n /\ i - 1 \in 0..n /\ i # 0
  BY <1>1
<1>7. PICK f : States(f, n, NoUsage, Op) /\ \A i \in 0..n : f[i] \in T[i]
  <2>1. ASSUME NEW i \in 1..n, NEW t \in T[i - 1] PROVE Op[<<t, i>>] \in T[i]
    <3>1. t \in Spent(i - 1) /\ t \in Sums /\ T[i] = Spent(i)
      BY <1>2, <1>6
    <3>2. Op[<<t, i>>] = Plus(t, Counted(requests[i]))
      BY <1>5, <3>1
    <3> QED BY <1>4, <3>1, <3>2
  <2>2. NoUsage \in T[0]
    BY <1>1, <1>2, <1>3
  <2> QED BY <1>1, <2>1, <2>2, Iterates
<1>8. f = [i \in 0..n |-> IF i = 0 THEN NoUsage ELSE Plus(f[i - 1], Counted(requests[i]))]
  <2>1. ASSUME NEW i \in 0..n
        PROVE  f[i] = IF i = 0 THEN NoUsage ELSE Plus(f[i - 1], Counted(requests[i]))
    <3>1. i # 0 => i \in 1..n /\ i - 1 \in 0..n
      BY <1>1
    <3>2. i # 0 => f[i] = Op[<<f[i - 1], i>>]
      BY <1>7 DEF States
    <3>3. f[0] = NoUsage
      BY <1>1, <1>7 DEF States
    <3>4. i # 0 => f[i - 1] \in Sums
      BY <1>2, <1>7, <3>1
    <3> QED BY <1>5, <3>1, <3>2, <3>3, <3>4
  <2>2. f = [i \in 0..n |-> f[i]]
    BY <1>7, Zenon DEF States
  <2> QED BY <2>1, <2>2, Zenon
<1> DEFINE sum[k \in 0..n] == IF k = 0 THEN NoUsage ELSE Plus(sum[k - 1], Counted(requests[k]))
<1>9. sum = [i \in 0..n |-> IF i = 0 THEN NoUsage ELSE Plus(sum[i - 1], Counted(requests[i]))]
  BY <1>8 DEF sum
<1>10. Summarize(requests) = sum[n]
  BY DEF Summarize, sum, n
<1> HIDE DEF sum
<1>11. \A i \in 0..n : sum[i] \in T[i]
  <2>1. sum[0] \in T[0]
    BY <1>1, <1>2, <1>3, <1>9
  <2>2. \A i \in 1..n : sum[i - 1] \in T[i - 1] => sum[i] \in T[i]
    <3> SUFFICES ASSUME NEW i \in 1..n, sum[i - 1] \in T[i - 1] PROVE sum[i] \in T[i]
      OBVIOUS
    <3>1. sum[i] = Plus(sum[i - 1], Counted(requests[i]))
      BY <1>6, <1>9
    <3> QED BY <1>2, <1>4, <1>6, <3>1
  <2> QED BY <1>1, <2>1, <2>2, Keeps
<1>12. n \in 0..n
  BY <1>1
<1> QED BY <1>2, <1>10, <1>11, <1>12 DEF n

LEMMA SummaryIs ==
  /\ BudgetSummary.estimatedMaximumUsdMicros = 269280
  /\ BudgetSummary.planningReserveUsdMicros = 336600
BY SMT DEF BudgetSummary, CostEstimateUsdMicros, RoundedUp, QUESTION_BATCH_BUDGET

LEMMA MostCost ==
  ASSUME NEW a \in Nat, a <= QUESTION_BATCH_BUDGET.maxInputEstimateTotal,
         NEW b \in Nat, b <= QUESTION_BATCH_BUDGET.maxOutputTokensTotal
  PROVE  CostEstimateUsdMicros(a, b) <= BudgetSummary.estimatedMaximumUsdMicros
<1>1. a <= 96000 /\ b <= 36000
  BY SMT, BudgetIs
<1>2. CostEstimateUsdMicros(a, b) <= 269280
  BY <1>1, SMT DEF CostEstimateUsdMicros, RoundedUp, QUESTION_BATCH_BUDGET
<1> QED BY <1>2, SMT, SummaryIs

LEMMA MostEstimate ==
  ASSUME NEW bytes \in Nat, CheckQuestionInputBudget(bytes)
  PROVE  QUESTION_BATCH_BUDGET.maxRequests * EstimatedCostUsdMicros(bytes)
           <= BudgetSummary.estimatedMaximumUsdMicros
<1>1. bytes + 4096 <= 16000
  BY SMT, BudgetIs DEF CheckQuestionInputBudget, EstimatedInputTokens
<1>2. EstimatedCostUsdMicros(bytes) = CostEstimateUsdMicros(bytes + 4096, 6000)
  BY SMT, BudgetIs DEF EstimatedCostUsdMicros, EstimatedInputTokens
<1>3. 6 * CostEstimateUsdMicros(bytes + 4096, 6000) <= 269280
  BY <1>1, SMT DEF CostEstimateUsdMicros, RoundedUp, QUESTION_BATCH_BUDGET
<1> QED BY <1>2, <1>3, SMT, SummaryIs, BudgetIs

LEMMA TotalSpent ==
  ASSUME NEW n \in Nat, n <= QUESTION_BATCH_BUDGET.maxRequests, NEW t \in Spent(n)
  PROVE  /\ t.inputTokens \in Nat
         /\ t.inputTokens <= QUESTION_BATCH_BUDGET.maxInputEstimateTotal
         /\ t.outputTokens \in Nat
         /\ t.outputTokens <= QUESTION_BATCH_BUDGET.maxOutputTokensTotal
<1>1. n <= 6
  BY SMT, BudgetIs
<1>2. /\ t.inputTokens \in Nat /\ t.inputTokens <= 16000 * 6
      /\ t.outputTokens \in Nat /\ t.outputTokens <= 6000 * 6
  BY <1>1, SMT, MostSpent
<1>3. ASSUME NEW a \in Nat PROVE (a <= 16000 * 6 => a <= 96000) /\ (a <= 6000 * 6 => a <= 36000)
  BY SMT
<1> QED BY <1>2, <1>3, SMT, BudgetIs

(* A batch that was authorized and in which no request failed is known to  *)
(* have cost no more than the person acknowledged, and the estimates of six*)
(* admitted requests do not promise more (budgetSummary, summarize,        *)
(* checkQuestionInputBudget).                                              *)
THEOREM BatchStaysInBudget ==
  ASSUME NEW requests \in Seq(Receipts), Succeeded(requests),
         Len(requests) <= QUESTION_BATCH_BUDGET.maxRequests,
         NEW wireBytes \in Nat, CheckQuestionInputBudget(wireBytes)
  PROVE  LET known == Summarize(requests)
             cost == CostEstimateUsdMicros(known.inputTokens, known.outputTokens)
         IN /\ cost <= BudgetSummary.estimatedMaximumUsdMicros
            /\ QUESTION_BATCH_BUDGET.maxRequests * EstimatedCostUsdMicros(wireBytes)
                 <= BudgetSummary.estimatedMaximumUsdMicros
            /\ BudgetSummary.estimatedMaximumUsdMicros < BudgetSummary.planningReserveUsdMicros
            /\ BatchAuthorized
<1> DEFINE known == Summarize(requests)
<1>1. known \in Spent(Len(requests)) /\ Len(requests) \in Nat
  BY SpentWithin
<1> HIDE DEF known
<1>2. CostEstimateUsdMicros(known.inputTokens, known.outputTokens)
        <= BudgetSummary.estimatedMaximumUsdMicros
  BY <1>1, TotalSpent, MostCost, Zenon
<1>3. QUESTION_BATCH_BUDGET.maxRequests * EstimatedCostUsdMicros(wireBytes)
        <= BudgetSummary.estimatedMaximumUsdMicros
  BY MostEstimate, Zenon
<1>4. /\ BudgetSummary.estimatedMaximumUsdMicros < BudgetSummary.planningReserveUsdMicros
      /\ BatchAuthorized
  BY SMT, SummaryIs, BudgetIs DEF BatchAuthorized
<1> QED BY <1>2, <1>3, <1>4, Zenon DEF known

(* An answer is refused for what it used itself and never for what the     *)
(* requests before it did: the limit of the whole batch is not reached by  *)
(* six requests within their own (runBoundedQuestionBatch).                *)
THEOREM OnlyItsOwnLimitsRefuse ==
  ASSUME NEW requests \in Seq(Receipts), Succeeded(requests),
         Len(requests) < QUESTION_BATCH_BUDGET.maxRequests,
         NEW usage \in Usage, NEW known \in BOOLEAN, NEW verified \in BOOLEAN
  PROVE  LET more == Receive(requests, usage, known, verified)
             last == more[Len(more)]
         IN /\ last.status = "technical-completed" <=> verified /\ known /\ WithinLimits(usage)
            /\ last.status = "technical-completed" => more \in Seq(Receipts) /\ Succeeded(more)
<1> DEFINE more == Receive(requests, usage, known, verified)
           ok == verified /\ known /\ WithinLimits(usage)
           before == Summarize(requests)
           receipt == [usage |-> usage, known |-> known,
                       status |-> IF ok THEN "technical-completed" ELSE "failed"]
<1>1. before \in Spent(Len(requests)) /\ Len(requests) \in Nat
  BY SpentWithin
<1>2. before.inputTokens \in Nat /\ before.inputTokens <= 16000 * 5
  <2>1. Len(requests) <= 5
    BY <1>1, BudgetIs
  <2> HIDE DEF before
  <2> QED BY <1>1, <2>1, MostSpent
<1> HIDE DEF before
<1>3. usage.inputTokens \in Nat
  BY DEF Usage, SafeCounts
<1>4. WithinLimits(usage) => before.inputTokens + usage.inputTokens <= 96000
  BY <1>2, <1>3, BudgetIs DEF WithinLimits
<1>5. more = Append(requests, receipt)
  BY <1>4, BudgetIs DEF Receive, before
<1>6. /\ receipt \in Receipts
      /\ receipt.status = "technical-completed" <=> ok
  BY DEF Receipts
<1> HIDE DEF more, receipt
<1>7. /\ more \in Seq(Receipts) /\ Len(more) = Len(requests) + 1
      /\ more[Len(more)] = receipt
      /\ \A k \in DOMAIN more : (k \in DOMAIN requests /\ more[k] = requests[k]) \/ more[k] = receipt
  BY <1>5, <1>6
<1>8. ok => Succeeded(more)
  BY <1>7 DEF Succeeded, receipt
<1> QED BY <1>6, <1>7, <1>8 DEF more
=============================================================================
