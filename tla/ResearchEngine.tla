--------------------------- MODULE ResearchEngine ----------------------------
(***************************************************************************)
(* The research engine: what the parser makes of a document is the report  *)
(* under review (parseResearchReport), and a report that the parser does   *)
(* not promote goes nowhere.  One that it does promote is accepted and     *)
(* decided on, with any label and history; so are other reports after it.  *)
(***************************************************************************)
EXTENDS DecisionCases, ReportDocuments

engineVars == <<casesVars, document>>

(* A result of the parser as the chain takes it: amounts in its steps of   *)
(* 0.0004 CNY mn instead of hundredths, growth in thousandths.             *)
ReportOf(result) ==
  LET Scaled(value, factor) == IF value = Absent THEN Nil ELSE factor * value
      Current(key) == Scaled(Disclosed(result.metrics, key), 25)
      Growth(key) == Scaled(IF key \in DOMAIN result.metrics THEN result.metrics[key].change ELSE Absent, 10)
  IN [source |-> "report", kind |-> "quarter", number |-> 9, clean |-> result.promoted,
      attr |-> Current("attributable_np"), adjusted |-> Current("adjusted_np"),
      nonRecurring |-> Scaled(result.nonRecurring, 25),
      attrYoy |-> Growth("attributable_np"), adjustedYoy |-> Growth("adjusted_np")]

ParseResearchReport(items) == ReportOf(ParseV06Strict(items))

EngineInit ==
  /\ document \in Plain
  /\ report = ParseResearchReport(document.items)
  /\ current = Nil /\ prior = <<>>

(* A document was typeset a little differently.                            *)
Typeset(e) == Alteration(e)

(* reviewAndRun refuses what was not promoted, and another document is read.*)
Refuse ==
  /\ ~report.clean
  /\ document' \in Plain

(* Either way a document is parsed.                                        *)
Parse ==
  /\ report' = ParseResearchReport(document'.items)
  /\ UNCHANGED <<current, prior>>

AcceptReport ==
  /\ report.clean
  /\ document' = Absent
  /\ current' \in Labels(report)
  /\ UNCHANGED <<report, prior>>

EngineNext ==
  \/ document # Absent /\ ((\E e \in document.edits : Typeset(e)) \/ Refuse) /\ Parse
  \/ document # Absent /\ AcceptReport
  \/ document = Absent /\ CasesNext /\ UNCHANGED document

EngineSpec == EngineInit /\ [][EngineNext]_engineVars
=============================================================================
