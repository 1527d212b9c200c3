-------------------------- MODULE ResearchContracts --------------------------
(***************************************************************************)
(* What the model is asked to return and what is accepted of it: the       *)
(* citations of a question's answer, written by one schema and checked by  *)
(* other code, and those of a memo.  A provider that keeps to the schema   *)
(* is paid for; what the validators refuse of it is paid for and lost.     *)
(*                                                                         *)
(* References are named without the prefix of their source.  Generation 11 *)
(* offers fixed texts only, told apart by what they state; the wording of  *)
(* the earlier ones, which archived answers are replayed with and which    *)
(* match patterns in prose, is left out.                                   *)
(***************************************************************************)
EXTENDS DecisionChain

Sources == {"ATTR", "ADJ", "NR"}
Rules == {"A-03", "K-07", "F-02", "Valuation-B5"}
References == Sources \cup {"SPREAD"} \cup Rules
MaxCitations == 8

(* directionFromSign.                                                      *)
Direction(value, up, down) ==
  CASE value = Nil -> "neutral"
    [] value # Nil -> IF value > 0 THEN up ELSE IF value < 0 THEN down ELSE "neutral"

(* The evidence of a run of the chain, with the side it is on.             *)
ChainEvidence(report) ==
  LET spread == IF Nil \in {report.attrYoy, report.adjustedYoy} THEN Nil
                ELSE report.adjustedYoy - report.attrYoy IN
  [ATTR |-> Direction(report.attrYoy, "neutral", "counter"),
   ADJ |-> Direction(report.adjustedYoy, "support", "counter"),
   NR |-> Direction(report.nonRecurring, "counter", "support"),
   SPREAD |-> Direction(spread, "support", "counter")]

On(side, evidence) == {id \in DOMAIN evidence : evidence[id] = side}

-----------------------------------------------------------------------------
(* Answers to questions.                                                   *)

Points == {"directAnswer", "inference", "counterEvidence", "uncertainty"}
Intents == {"CHANGE_EXPLAIN", "EVIDENCE_AUDIT", "DECISION_IMPACT"}

(* questionCitationPolicy: what is derived is cited with what it is        *)
(* derived from.                                                           *)
Requires(id) ==
  CASE id = "SPREAD" -> {"ATTR", "ADJ"} [] id = "F-02" -> Sources [] OTHER -> {}

(* Variant: a derived reference may be cited alone.                        *)
Alone(ids) == ids

Closure(ids) == ids \cup UNION {Requires(id) : id \in ids}

(* questionCitationChoices, from generation 7 on: the groups a point may   *)
(* be given.                                                               *)
CitationChoices(point, counter) ==
  CASE point = "uncertainty" -> {Closure({id, "A-03"}) : id \in References}
    [] point = "counterEvidence" /\ counter # {} ->
         UNION {{Closure({id, against, "ATTR", "ADJ", "A-03"}) : id \in References} : against \in counter}
    [] OTHER -> {Closure({id}) : id \in References}

(* A context is what an answer is judged by: the evidence with its sides,  *)
(* the status of the core-profit assumption as it is shown, and whether    *)
(* the adjustments have no comparison.                                     *)
QuestionContexts(report) ==
  {[evidence |-> ChainEvidence(report), assumption |-> assumption, comparisonMissing |-> missing] :
     assumption \in AssumptionStates, missing \in BOOLEAN}

Against(context) == On("counter", context.evidence)

(* A question as its contract has it, and that of a caller without one.    *)
Questions == [intent : Intents, asksCause : BOOLEAN]
NoContract == [intent |-> Nil, asksCause |-> FALSE]

(* controlledQuestionPoints, of generation 11: the one group of a point... *)
ControlledGroup(point, counter, intent) ==
  Closure(
    CASE point = "directAnswer" ->
           Sources \cup {"F-02", "A-03"} \cup
           (CASE intent = "DECISION_IMPACT" -> {"K-07", "Valuation-B5"}
              [] intent = "EVIDENCE_AUDIT" -> {"Valuation-B5"}
              [] OTHER -> {})
      [] point = "inference" -> Sources \cup {"F-02", "A-03"}
      [] point = "counterEvidence" -> {"ATTR", "ADJ", "A-03"} \cup counter
      [] point = "uncertainty" -> {"NR", "A-03", "K-07", "Valuation-B5"})

(* ... and the texts it may have: which way the profits went, how far the  *)
(* opinion goes, what stands against it and what is missing.               *)
ControlledTexts(point, context, intent) ==
  CASE point = "directAnswer" ->
         (CASE intent = "EVIDENCE_AUDIT" -> {<<"figures can be traced">>}
            [] intent = "DECISION_IMPACT" -> {<<"effects are for review">>}
            [] OTHER -> {<<"growths differ", context.evidence["ATTR"] = "counter", context.evidence["ADJ"]>>,
                         <<"the bridge gives no cause">>})
    [] point = "inference" ->
         (CASE context.assumption = "rejected" -> {<<"not endorsed">>}
            [] context.assumption \in {"approved", "qualified"} -> {<<"endorsed in its scope">>}
            [] context.assumption = "insufficient-evidence" -> {<<"evidence insufficient">>}
            [] OTHER -> {<<"subject to review">>, <<"conditional">>})
    [] point = "counterEvidence" -> {<<"against", Against(context)>>}
    [] point = "uncertainty" -> {<<"comparison missing", context.comparisonMissing>>}

ControlledPoint(point, context, intent) ==
  [texts |-> ControlledTexts(point, context, intent),
   group |-> ControlledGroup(point, Against(context), intent)]

(* questionAnswerConstraints: whoever asks for causes of a change without  *)
(* a comparison gets a partial answer.                                     *)
Sufficiency(context, question) ==
  IF question.intent = "CHANGE_EXPLAIN" /\ question.asksCause /\ context.comparisonMissing
  THEN {"partial"} ELSE {"complete", "partial"}

(* questionExplanationSchema, of generation 11: one text and one group.    *)
OfferedPoint(point, context, question) ==
  LET definition == ControlledPoint(point, context, question.intent) IN
  {[text |-> text, citations |-> {definition.group}] : text \in definition.texts}

OfferedAnswers(context, question) ==
  [sufficiency : Sufficiency(context, question),
   points : [directAnswer : OfferedPoint("directAnswer", context, question),
             inference : OfferedPoint("inference", context, question),
             counterEvidence : OfferedPoint("counterEvidence", context, question),
             uncertainty : OfferedPoint("uncertainty", context, question)]]

Citable(ids) == ids # {} /\ ids \subseteq References /\ Cardinality(ids) <= MaxCitations

(* The paragraph checks of the generations that choose freely among groups.*)
AcceptsParagraph(point, ids, counter) ==
  /\ Citable(ids)
  /\ \A id \in ids : Requires(id) \subseteq ids
  /\ point = "counterEvidence" /\ counter # {} => ids \cap counter # {}
  /\ point = "uncertainty" => "A-03" \in ids

(* validateControlledPoint: the text is one of the fixed ones and nothing  *)
(* is cited besides.                                                       *)
AcceptsPoint(said, texts, expected) == said.text \in texts /\ said.citations = expected

(* validateQuestionExplanation, of generation 11.                          *)
AcceptsExplanation(answer, context, question) ==
  /\ \A point \in Points :
       LET definition == ControlledPoint(point, context, question.intent) IN
       /\ Citable(answer.points[point].citations)
       /\ AcceptsPoint(answer.points[point], definition.texts, definition.group)
  /\ Sources \subseteq UNION {answer.points[point].citations : point \in Points}
  /\ "A-03" \in answer.points["uncertainty"].citations
  /\ answer.sufficiency \in Sufficiency(context, question)

(* validateQuestionOutput: the groups of an answer, as they were sent, are *)
(* checked and replaced by their members, and the answer once more.        *)
Expanded(output) ==
  [sufficiency |-> output.sufficiency,
   points |-> [point \in Points |->
     [text |-> output.points[point].text, citations |-> UNION output.points[point].citations]]]

AcceptsOutput(output, context, question) ==
  /\ \A point \in Points :
       LET definition == ControlledPoint(point, context, question.intent) IN
       AcceptsPoint(output.points[point], definition.texts, {definition.group})
  /\ AcceptsExplanation(Expanded(output), context, question)

-----------------------------------------------------------------------------
(* Memos.  A memo says what it cites in each slot of each section.         *)

MemoSections == {"summary", "supporting", "counter", "alternatives", "questions"}
SlotsOf(section) == IF section = "questions" THEN <<"first", "second">> ELSE <<"point">>

(* memoContractFor: earlier prompts, named without what all their names    *)
(* begin with, keep the earlier limits, and one that is not known has none.*)
MEMO_PROMPT_VERSION == "v3-compact-1"
LEGACY_MEMO_PROMPTS ==
  {"v1", "v1-format-1", "v1-format-2", "v2-judgement-1", "v2-judgement-2", "v2-judgement-3"}
MemoContract(promptVersion) ==
  CASE promptVersion = MEMO_PROMPT_VERSION -> "compact"
    [] promptVersion \in LEGACY_MEMO_PROMPTS -> "legacy"
    [] OTHER -> Nil

(* How many points a section may have.                                     *)
SectionSizes(section, contract) ==
  IF contract = "compact" \/ section = "summary" THEN {Len(SlotsOf(section))} ELSE 1..3

(* memoSchema: every slot of every section may cite whatever there is.     *)
OfferedMemo(cited) ==
  [section \in MemoSections |->
     [slot \in {SlotsOf(section)[i] : i \in DOMAIN SlotsOf(section)} |-> cited]]

(* validateMemoOutput: the slots become the lists that are kept.           *)
StoredMemo(output) ==
  [section \in MemoSections |->
     [i \in DOMAIN SlotsOf(section) |-> output[section][SlotsOf(section)[i]]]]

(* validateMemo.                                                           *)
AcceptsMemo(memo, evidence, promptVersion) ==
  /\ MemoContract(promptVersion) # Nil
  /\ \A section \in MemoSections :
       /\ Len(memo[section]) \in SectionSizes(section, MemoContract(promptVersion))
       /\ \A i \in DOMAIN memo[section] :
            LET ids == memo[section][i] IN
            /\ Citable(ids)
            /\ section = "supporting" => ids \cap On("support", evidence) # {}
            /\ section = "counter" => ids \cap On("counter", evidence) # {}
  /\ \A id \in Sources : \E section \in MemoSections :
       \E i \in DOMAIN memo[section] : id \in memo[section][i]
=============================================================================
