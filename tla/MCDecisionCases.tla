--------------------------- MODULE MCDecisionCases ---------------------------
(* Quarter 9 is a first quarter; the histories reach back to quarter 6.    *)
EXTENDS DecisionCases

Quarter(attr, adjusted, adjustedYoy) ==
  [source |-> "report", kind |-> "quarter", number |-> 9, clean |-> TRUE,
   attr |-> attr, adjusted |-> adjusted, nonRecurring |-> 10,
   attrYoy |-> 20, adjustedYoy |-> adjustedYoy]

(* Growth below, at and above zero, and missing; a bridge that closes with *)
(* a difference, and one that does not; a half year; an incomplete report. *)
SomeReports ==
  {Quarter(100, 90, yoy) : yoy \in {-50, 0, 50, Nil}} \cup
  {Quarter(100, 92, -50), Quarter(100, 93, -50), [Quarter(100, 90, 10) EXCEPT !.attrYoy = Nil],
   [Quarter(100, 90, -50) EXCEPT !.kind = "half"],
   [Quarter(90, 100, 10) EXCEPT !.nonRecurring = -10, !.attrYoy = -20],
   [Quarter(90, 100, -30) EXCEPT !.nonRecurring = -10, !.attrYoy = -20],
   [Quarter(100, 90, -50) EXCEPT !.nonRecurring = Nil], [Quarter(100, 90, -50) EXCEPT !.clean = FALSE]}

Row8 == Period("s8", Anker, "quarter", 8, 0, TRUE)

SomeRows ==
  {Nil, Row8, Period("s7", Anker, "quarter", 7, -50, TRUE), Period("s6", Anker, "quarter", 6, 50, TRUE),
   [Row8 EXCEPT !.yoy = 50], [Row8 EXCEPT !.company = Nil],
   [Row8 EXCEPT !.kind = "half"], [Row8 EXCEPT !.accepted = FALSE], [Row8 EXCEPT !.source = "s7"],
   [Row8 EXCEPT !.source = "report"]}

Opinion(author, completed, source, conclusion, accounting) ==
  [author |-> author, completed |-> completed, source |-> source, kind |-> "quarter", number |-> 9,
   conclusion |-> conclusion, accounting |-> accounting]

Class(class, coverage) == [class |-> class, coverage |-> coverage]

SomeOpinions ==
  {Nil, Opinion("human", TRUE, "other", "accepted", {Class("recurring", "entire")}),
   Opinion("human", FALSE, "report", "accepted", {Class("recurring", "entire")}),
   Opinion("ai", TRUE, "report", "accepted", {Class("recurring", "entire")})} \cup
  {Opinion("human", TRUE, "report", "rejected", accounting) :
     accounting \in {{Class("recurring", "entire")}, {Class("recurring", "item")},
                     {Class("recurring", "entire"), Class("non-recurring", "entire")},
                     {Class("non-recurring", "entire"), Class("recurring", "item")}}}

SomeValuations ==
  {[factor |-> "missing", shares |-> "valid", multiples |-> "valid", finite |-> TRUE],
   [factor |-> "missing", shares |-> "missing", multiples |-> "missing", finite |-> TRUE]}
=============================================================================
