--------------------------- MODULE UpdateWorkflow ---------------------------
(***************************************************************************)
(* The page that turns a report into a research version: material is       *)
(* selected, read, reviewed metric by metric, previewed and saved.         *)
(*                                                                         *)
(* Reading a file and obtaining the version lock take time, and the page   *)
(* goes on meanwhile: whatever happens in between, only what a person has  *)
(* accepted may reach the library, in the library its source belongs to.   *)
(*                                                                         *)
(* One page.  The confirmation that unsaved work is given up, and the      *)
(* deferred action behind it, are one step with the action.                *)
(***************************************************************************)
EXTENDS DecisionChain

CONSTANTS
  Regression,   \* the registered source whose use is regression only
  Development,  \* the registered source for research
  Files,        \* files a user may choose: [source, result], source Nil if unregistered
  Sample,       \* what the parser makes of the built-in sample
  EditsOf(_),   \* the values a user may type for a metric, Nil (no number) among them
  MaxVersions   \* saves of one page

Metrics == {"attr", "adjusted", "nonRecurring"}
Records == {Regression, Development}

(* What the parser returns: for each metric its value, the one it is       *)
(* compared with and the growth disclosed, each of them perhaps missing.   *)
Amounts == Int \cup {Nil}
Results ==
  [kind : {"quarter", "half", "year"}, number : Nat, clean : BOOLEAN,
   metrics : [Metrics -> [value : Amounts, comparison : Amounts, disclosed : Amounts]]]
Periods ==
  [source : Records, company : {Anker}, kind : {"quarter", "half", "year"}, number : Nat,
   yoy : Int, accepted : BOOLEAN]

ASSUME UpdateAssumption ==
  /\ Regression # Development
  /\ MaxVersions \in Nat
  /\ Nil \notin Int \cup Periods \cup {"recurring", "non-recurring"}
  /\ Files \subseteq [source : Records \cup {Nil}, result : Results]
  /\ Sample \in Results
  /\ \A m \in Metrics : EditsOf(m) \subseteq Amounts

(* The step "continue" of the rail is a link to another page.              *)
Steps == {"upload", "review", "diff", "saved"}

VARIABLES
  step,        \* where the page is, in Steps
  selected,    \* the registered source selected
  parsing,     \* the file being read and the source selected for it, or Nil
  material,    \* source and parser result under review, or Nil
  candidates,  \* value and review status of each metric extracted
  named,       \* whether a reviewer's name is filled in
  saving,      \* saves that wait for the version lock
  library,     \* the versions saved, by workspace
  endorsed     \* history: the value of each metric when it was last accepted

vars == <<step, selected, parsing, material, candidates, named, saving, library, endorsed>>

Workspace(source) == IF source = Regression THEN "regression" ELSE "research"

-----------------------------------------------------------------------------
(* The engine.                                                             *)

(* What the parser extracts, to be reviewed.                               *)
Candidates(result) ==
  [m \in {k \in Metrics : result.metrics[k].value # Nil} |->
     [value |-> result.metrics[m].value, status |-> "pending"]]

(* Variant: the growth check is dropped.                                   *)
AnyGrowth(value, original) == value # Nil

(* The value as reviewed still gives the growth the report discloses, up to*)
(* 0.005.                                                                  *)
GrowthReconciles(value, original) ==
  /\ value # Nil /\ Nil \notin {original.comparison, original.disclosed}
  /\ original.comparison # 0
  /\ LET scale == IF original.comparison < 0 THEN -original.comparison ELSE original.comparison
         deviation == 1000 * (value - original.comparison) - original.disclosed * scale
     IN deviation \in (-5 * scale)..(5 * scale)

(* The metric carries accepted evidence that reconciles.  Candidates keep  *)
(* the source and the figures they were extracted with, as long as they    *)
(* stay on the page, so the comparison with those always succeeds.         *)
MetricPasses(metric, result, cands) ==
  /\ metric \in DOMAIN cands
  /\ cands[metric].status = "accepted"
  /\ cands[metric].value # Nil
  /\ metric # "nonRecurring" => GrowthReconciles(cands[metric].value, result.metrics[metric])

(* The report with the reviewed values, as the chain takes it.             *)
Reviewed(source, result, cands) ==
  [source |-> source, kind |-> result.kind, number |-> result.number, clean |-> result.clean,
   attr |-> cands["attr"].value, adjusted |-> cands["adjusted"].value,
   nonRecurring |-> cands["nonRecurring"].value,
   attrYoy |-> result.metrics["attr"].disclosed, adjustedYoy |-> result.metrics["adjusted"].disclosed]

(* A single quarter is labelled only if it is the first of a year.         *)
CurrentPeriod(report) ==
  IF report.adjustedYoy # Nil /\ Annualizable(report)
  THEN Period(report.source, Anker, report.kind, report.number, report.adjustedYoy, TRUE)
  ELSE Nil

AllPending == [g \in {"EG-01", "EG-02"} |-> "pending"]

(* reviewAndRun: the chain's result, or Nil if something blocks.  The page *)
(* has no history, no opinion and no valuation to give.                    *)
ReviewAndRun(source, result, cands) ==
  IF ~result.clean \/ \E m \in Metrics : ~MetricPasses(m, result, cands) THEN Nil ELSE
  LET report == Reviewed(source, result, cands)
      chain == RunC04ChainReviewed(report, CurrentPeriod(report), <<>>, Nil, AllPending,
                 [factor |-> "missing", shares |-> "missing", multiples |-> "missing", finite |-> TRUE])
  IN IF chain.status = "blocked" THEN Nil ELSE chain

CanPromote == material # Nil /\ ReviewAndRun(material.source, material.result, candidates) # Nil

AllReviewed == candidates # <<>> /\ \A m \in DOMAIN candidates : candidates[m].status # "pending"

-----------------------------------------------------------------------------
Init ==
  /\ step = "upload" /\ selected = Development
  /\ parsing = Nil /\ material = Nil /\ candidates = <<>> /\ named = FALSE
  /\ saving = <<>> /\ library = [w \in {"research", "regression"} |-> <<>>]
  /\ endorsed = [m \in Metrics |-> Nil]

(* resetWorkflow, as far as it concerns the material.                      *)
Cleared ==
  /\ material' = Nil /\ candidates' = <<>> /\ named' = FALSE
  /\ endorsed' = [m \in Metrics |-> Nil]

Loaded(source, result) ==
  /\ step' = "review"
  /\ material' = [source |-> source, result |-> result]
  /\ candidates' = Candidates(result)
  /\ endorsed' = [m \in Metrics |-> Nil]

(* The three panels, and with them what can be done.  Material is chosen on*)
(* the first one, unless a file is being read.                             *)
MayImport == step = "upload" /\ parsing = Nil

(* Candidates are edited, accepted and rejected one by one on the second.  *)
ReviewShown == step = "review" /\ material # Nil

(* The third shows what the accepted evidence changes, and saves it.       *)
ImpactShown == step \in {"diff", "saved"} /\ material # Nil

LoadSample ==
  /\ MayImport
  /\ selected' = Development /\ named' = FALSE
  /\ Loaded(Development, Sample)
  /\ UNCHANGED <<parsing, saving, library>>

(* processFile up to the extraction; the closure keeps the selection.      *)
ProcessFile(file) ==
  /\ parsing' = [file |-> file, selected |-> selected]
  /\ Cleared
  /\ UNCHANGED <<step, selected, saving, library>>

(* A file is chosen, or one is dropped.                                    *)
ChooseFile(file) == MayImport /\ ProcessFile(file)

(* The file was read, and it is the material selected.                     *)
Extracted ==
  /\ parsing # Nil /\ parsing.file.source = parsing.selected
  /\ Loaded(parsing.file.source, parsing.file.result)
  /\ parsing' = Nil
  /\ UNCHANGED <<selected, named, saving, library>>

SetAside ==
  /\ parsing' = Nil
  /\ UNCHANGED <<step, selected, material, candidates, named, saving, library, endorsed>>

(* extractPdfItems throws: the file is none that can be read, too large, or*)
(* not read when the timer fires, and then not even if the last page came. *)
ExtractionFailed == parsing # Nil /\ SetAside

(* The file was read, but it is another report.                            *)
ExtractionRefused ==
  /\ parsing # Nil /\ parsing.file.source # parsing.selected
  /\ SetAside

(* Variant: the selection can change while a file is being read.           *)
SelectWhileParsing(source) ==
  /\ source # selected
  /\ selected' = source /\ step' = "upload"
  /\ Cleared
  /\ UNCHANGED <<parsing, saving, library>>

SelectSource(source) ==
  /\ source # selected /\ parsing = Nil
  /\ selected' = source /\ step' = "upload"
  /\ Cleared
  /\ UNCHANGED <<parsing, saving, library>>

StartOver ==
  /\ ReviewShown \/ (ImpactShown /\ step = "saved")
  /\ step' = "upload"
  /\ Cleared
  /\ UNCHANGED <<selected, parsing, saving, library>>

(* Variant: an edit keeps the status.                                      *)
EditQuietly(metric, value) ==
  /\ ReviewShown /\ metric \in DOMAIN candidates
  /\ candidates' = [candidates EXCEPT ![metric].value = value]
  /\ UNCHANGED <<step, selected, parsing, material, named, saving, library, endorsed>>

(* A label, a direction or a value is edited.                              *)
Edit(metric, value) ==
  /\ ReviewShown /\ metric \in DOMAIN candidates
  /\ candidates' = [candidates EXCEPT ![metric] = [value |-> value, status |-> "pending"]]
  /\ UNCHANGED <<step, selected, parsing, material, named, saving, library, endorsed>>

Accept(metric) ==
  /\ ReviewShown /\ metric \in DOMAIN candidates /\ material.result.clean
  /\ candidates' = [candidates EXCEPT ![metric].status = "accepted"]
  /\ endorsed' = [endorsed EXCEPT ![metric] = candidates[metric].value]
  /\ UNCHANGED <<step, selected, parsing, material, named, saving, library>>

Reject(metric) ==
  /\ ReviewShown /\ metric \in DOMAIN candidates
  /\ candidates' = [candidates EXCEPT ![metric].status = "rejected"]
  /\ endorsed' = [endorsed EXCEPT ![metric] = Nil]
  /\ UNCHANGED <<step, selected, parsing, material, named, saving, library>>

(* generateDiff.                                                           *)
Preview ==
  /\ ReviewShown /\ AllReviewed /\ CanPromote
  /\ step' = "diff"
  /\ UNCHANGED <<selected, parsing, material, candidates, named, saving, library, endorsed>>

BackToReview ==
  /\ ImpactShown /\ step = "diff"
  /\ step' = "review"
  /\ UNCHANGED <<selected, parsing, material, candidates, named, saving, library, endorsed>>

SetReviewer(filled) ==
  /\ ImpactShown /\ step = "diff"
  /\ named' = filled
  /\ UNCHANGED <<step, selected, parsing, material, candidates, saving, library, endorsed>>

(* saveVersion up to the lock.  Nothing disables the button meanwhile.     *)
Save ==
  /\ ImpactShown /\ step = "diff" /\ CanPromote /\ named
  /\ Len(saving) + Len(library["research"]) + Len(library["regression"]) < MaxVersions
  /\ saving' = Append(saving,
       [workspace |-> Workspace(selected), material |-> material, candidates |-> candidates,
        named |-> named, endorsed |-> endorsed])
  /\ UNCHANGED <<step, selected, parsing, material, candidates, named, library, endorsed>>

(* createResearchSnapshot and appendVersion; Nil if either throws.         *)
Snapshot(save) ==
  LET chain == ReviewAndRun(save.material.source, save.material.result, save.candidates) IN
  IF \/ chain = Nil \/ ~save.named
     \/ save.workspace = "research" /\ save.material.source = Regression
  THEN Nil
  ELSE [source |-> save.material.source, result |-> save.material.result,
        evidence |-> save.candidates, reviewed |-> save.named, endorsed |-> save.endorsed,
        signal |-> chain.signal, criterion |-> chain.criterion, blockedGates |-> chain.decisionGates]

(* buildMemoContext: whoever uses a version later replays the engine on its*)
(* report and its evidence, and finds the judgement that was stored.       *)
BuildMemoContext(version, workspace) ==
  /\ version.source \in Records /\ Workspace(version.source) = workspace
  /\ version.result.clean /\ version.reviewed
  /\ \A m \in Metrics : LET read == version.result.metrics[m] IN
       read.value # Nil /\ (m # "nonRecurring" => Nil \notin {read.comparison, read.disclosed})
  /\ DOMAIN version.evidence = Metrics
  /\ \A m \in Metrics : version.evidence[m].status = "accepted"
  /\ LET chain == ReviewAndRun(version.source, version.result, version.evidence) IN
       /\ chain # Nil
       /\ version.signal = chain.signal /\ version.criterion = chain.criterion
       /\ version.blockedGates = chain.decisionGates

(* resolveQuestionEvidence, for a task about the version's own report.     *)
ResolveQuestionEvidence(version) ==
  /\ BuildMemoContext(version, "research")
  /\ \A m \in Metrics : version.evidence[m].value # Nil /\ version.result.metrics[m].comparison # 0

(* The lock is granted: the snapshot is made of what the save took along,  *)
(* and the page, whatever it shows by now, goes to its last step; or it    *)
(* stays, when the pointer to the active version cannot be written.        *)
Saved ==
  /\ saving # <<>>
  /\ \E version \in {Snapshot(Head(saving))} :
       /\ version # Nil
       /\ library' = [library EXCEPT ![Head(saving).workspace] = Append(@, version)]
  /\ saving' = Tail(saving)
  /\ step' \in {"saved", step}
  /\ UNCHANGED <<selected, parsing, material, candidates, named, endorsed>>

(* The snapshot is refused or the browser has no room for it.              *)
SaveFailed ==
  /\ saving # <<>>
  /\ saving' = Tail(saving)
  /\ UNCHANGED <<step, selected, parsing, material, candidates, named, library, endorsed>>

Next ==
  \/ LoadSample
  \/ \E file \in Files : ChooseFile(file)
  \/ Extracted \/ ExtractionFailed \/ ExtractionRefused
  \/ \E source \in Records : SelectSource(source)
  \/ StartOver
  \/ \E m \in Metrics : \E value \in EditsOf(m) : Edit(m, value)
  \/ \E m \in Metrics : Accept(m) \/ Reject(m)
  \/ Preview \/ BackToReview
  \/ \E filled \in BOOLEAN : SetReviewer(filled)
  \/ Save \/ Saved \/ SaveFailed

Spec == Init /\ [][Next]_vars

-----------------------------------------------------------------------------
(* Every variable keeps its shape, and candidates exist for material only. *)
TypeOK ==
  /\ step \in Steps
  /\ selected \in Records
  /\ parsing # Nil => parsing.file \in Files /\ parsing.selected \in Records
  /\ DOMAIN candidates \subseteq Metrics
  /\ material = Nil => candidates = <<>>
  /\ \A m \in DOMAIN candidates : candidates[m].status \in {"pending", "accepted", "rejected"}
  /\ named \in BOOLEAN
  /\ DOMAIN endorsed = Metrics

(* What a snapshot must be: the three metrics at exactly the values a      *)
(* person accepted last, a clean report, growth and profit bridge that     *)
(* reconcile, a named reviewer, both professional gates listed as open.    *)
(* One report alone is watched at most: it cannot make up a second period; *)
(* and not at all if it is of a quarter that cannot be labelled.           *)
WellReviewed(version) ==
  /\ version.reviewed /\ version.result.clean
  /\ DOMAIN version.evidence = Metrics
  /\ \A m \in Metrics : version.evidence[m] = [value |-> version.endorsed[m], status |-> "accepted"]
  /\ \A m \in Metrics \ {"nonRecurring"} :
       LET read == version.result.metrics[m]
           base == IF read.comparison < 0 THEN -read.comparison ELSE read.comparison
           growth == (1000 * (version.evidence[m].value - read.comparison)) \div base
       IN growth - read.disclosed \in -5..5
  /\ version.evidence["attr"].value - version.evidence["nonRecurring"].value
       - version.evidence["adjusted"].value \in -2..2
  /\ {"EG-01", "EG-02"} \subseteq version.blockedGates
  /\ version.criterion =
       IF Annualizable(version.result) /\ version.result.metrics["adjusted"].disclosed <= 0
       THEN "watch" ELSE "unknown"

(* Whatever is edited, selected or read while saves wait for the lock, the *)
(* libraries get well reviewed versions only, and the research library    *)
(* none of regression material (reviewAndRun, createResearchSnapshot and   *)
(* the closure of saveVersion).  And what is saved is of use: memos are    *)
(* written about it and questions answered, neither finds it wanting,      *)
(* except that questions want no comparison with zero of a metric whose    *)
(* growth the review does not look at.                                     *)
LibraryIsReviewed ==
  [][\A w \in DOMAIN library : library'[w] # library[w] =>
       LET version == Last(library'[w]) IN
       /\ library'[w] = Append(library[w], version)
       /\ WellReviewed(version)
       /\ w = Workspace(version.source)
       /\ BuildMemoContext(version, w)
       /\ w = "research" /\ version.result.metrics["nonRecurring"].comparison # 0
            => ResolveQuestionEvidence(version)]_vars

(* The material under review is the one selected: a file that was slow to  *)
(* read never lands under another selection (isParsing in processFile).    *)
MaterialMatchesSelection == material # Nil => material.source = selected
=============================================================================
