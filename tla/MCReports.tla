------------------------------ MODULE MCReports ------------------------------
(***************************************************************************)
(* Three ways to typeset one report: on one page, with the primary table   *)
(* continued on the next, or with a header of its own for the assets.      *)
(***************************************************************************)
EXTENDS ReportDocuments

FourMetrics == {"attributable_np", "adjusted_np", "roe", "total_assets"}

Item(page, y, x, text, value) == [page |-> page, y |-> y, x |-> x, text |-> text, value |-> value]

Text(page, y, x, text) == Item(page, y, x, text, 0)

Numbers(page, y, mark, values, change) ==
  {Item(page, y, 400, mark, values[1]), Item(page, y, 560, mark, values[2]),
   Item(page, y, 720, "percent", change)}

Header(page, y, current, comparison) ==
  {Text(page, y, 80, "item"), Text(page, y, 400, current), Text(page, y, 560, comparison),
   Text(page, y, 720, "changePercent")}

AttributableNumbers(y) == Numbers(1, y, "number", <<120, 100>>, 20)
AdjustedNumbers(y) == Numbers(1, y, "number", <<90, 100>>, -10)
AttributableLabel(y) == {Text(1, y, 80, "owners"), Text(1, y, 160, "profit")}
AdjustedLabel(upper, lower) ==
  {Text(1, upper, 80, "owners"), Text(1, upper, 120, "deducting"), Text(1, lower, 160, "profit")}

Return(page, y) == {Text(page, y, 80, "return")} \cup Numbers(page, y, "percent", <<5, 4>>, 1)
Assets(page, y) == {Text(page, y, 80, "assets")} \cup Numbers(page, y, "number", <<210, 200>>, 5)
OtherAssets(page, y) == {Text(page, y, 80, "assets")} \cup Numbers(page, y, "number", <<300, 200>>, 50)

NonRecurring(page, y) == {Text(page, y, 80, "section"), Text(page, y, 120, "nonRecurring")}
Total(page, y, value) == {Text(page, y, 80, "total"), Item(page, y, 400, "number", value)}

(* Header, both profits and the return on page 1.                          *)
TopOfTable(y) ==
  {Text(1, y + 60, 80, "report")} \cup Header(1, y + 30, "current", "comparison")
    \cup AttributableLabel(y) \cup AttributableNumbers(y)
    \cup AdjustedLabel(y - 30, y - 30) \cup AdjustedNumbers(y - 30) \cup Return(1, y - 60)

Statement ==
  [attributable_np |-> [current |-> 12000, comparison |-> 10000, change |-> 20],
   adjusted_np |-> [current |-> 9000, comparison |-> 10000, change |-> -10],
   roe |-> [current |-> 5, comparison |-> 4, change |-> 1],
   total_assets |-> [current |-> 21000, comparison |-> 20000, change |-> 5],
   non_recurring_total |-> 3000]

Change(remove, add, lost, ours) == [remove |-> remove, add |-> add, lost |-> lost, ours |-> ours]

Amounts == {"attributable_np", "adjusted_np", "total_assets"}

(* Changes to the profits at y, on every layout.                           *)
ProfitEdits(y) ==
  { \* labels wrap, a little or half-way to the row above
    Change(AdjustedLabel(y - 30, y - 30), AdjustedLabel(y - 20, y - 40), {}, TRUE),
    Change(AdjustedLabel(y - 30, y - 30), AdjustedLabel(y - 15, y - 45), {}, TRUE),
    Change(AttributableLabel(y), {Text(1, y + 10, 80, "owners"), Text(1, y - 10, 160, "profit")}, {}, TRUE),
    Change(AttributableLabel(y), {Text(1, y, 80, "owners"), Text(1, y - 12, 160, "profit")}, {}, TRUE),
    \* a number slips, within the tolerance of a row or out of it
    Change({Item(1, y, 400, "number", 120)}, {Item(1, y + 2, 400, "number", 120)}, {}, TRUE),
    Change({Item(1, y, 400, "number", 120)}, {Item(1, y - 5, 400, "number", 120)}, {}, TRUE),
    \* a number is missing, or a change is given without its sign
    Change({Item(1, y, 560, "number", 100)}, {}, {"attributable_np"}, TRUE),
    Change({Item(1, y, 720, "percent", 20)}, {Item(1, y, 720, "number", 20)}, {}, TRUE),
    Change({Item(1, y - 60, 720, "percent", 1)}, {Item(1, y - 60, 720, "points", 1)}, {}, TRUE),
    Change(Return(1, y - 60), {}, {"roe"}, TRUE),
    \* comparisons are restated
    Change({Item(1, r[1], 560, r[2], r[3]) :
              r \in {<<y, "number", 100>>, <<y - 30, "number", 100>>, <<y - 60, "percent", 4>>}},
           {Text(1, y + 15, 520, "before"), Text(1, y + 15, 600, "after")} \cup
           UNION {{Item(1, r[1], 520, r[2], r[3]), Item(1, r[1], 600, r[2], r[4])} :
              r \in {<<y, "number", 110, 100>>, <<y - 30, "number", 110, 100>>, <<y - 60, "percent", 3, 4>>}},
           {}, TRUE),
    Change({}, {Text(1, y + 15, 600, "after")}, {}, TRUE),
    \* amounts are in ten thousand yuan, or those of a section above are
    Change({}, {Text(1, y + 60, 300, "unitWan")}, Amounts, TRUE),
    Change({}, {Text(1, y + 90, 300, "unitWan"), Text(1, y + 75, 80, "section")}, {}, TRUE) }

(* Changes to the assets, and a second table below them.                   *)
AssetEdits(page, y) ==
  { Change(Assets(page, y), {}, {"total_assets"}, TRUE),
    Change({}, {Text(page, y, 100, "inWan")}, {"total_assets"}, TRUE),
    Change({}, {Item(page, y, 480, "number", 100)}, {}, TRUE),
    Change(Numbers(page, y, "number", <<210, 200>>, 5),
           {Item(page, y, 600, "number", 210), Item(page, y, 760, "number", 200),
            Item(page, y, 920, "percent", 5)}, {"total_assets"}, TRUE) }

OtherProfit(page, y) ==
  {Text(page, y, 80, "owners"), Text(page, y, 160, "profit")} \cup Numbers(page, y, "number", <<160, 100>>, 60)

(* Another table, or rows of one, after the primary table.                 *)
Seconds(page, y) ==
  { Change({}, head \cup OtherAssets(page, y - 30), {}, FALSE) :
      head \in { {Text(page, y, 80, "section")}, {Text(page, y, 80, "note")},
                 {Text(page, y, 80, "item"), Text(page, y, 400, "balances")},
                 Header(page, y, "current", "currentEnd"),
                 Header(page, y, "current", "comparisonEnd") } } \cup
  { Change({}, head \cup OtherProfit(page, y - 30), {}, FALSE) :
      head \in { {Text(page, y, 80, "report")}, Header(page, y, "current", "comparison") } }

(* Changes to the disclosure of non-recurring items.                       *)
TotalEdits(page, y) ==
  { Change({}, Total(page, y - 30, 40), {}, TRUE),
    Change(Total(page, y, 30), Total(page + 2, y, 30), {}, TRUE),
    Change(Total(page, y, 30), {Text(page, y, 80, "section")} \cup Total(page, y - 15, 30),
           {"non_recurring_total"}, TRUE),
    Change({}, {Text(page, y + 15, 300, "unitWan")}, {"non_recurring_total"}, TRUE),
    Change({}, {Text(page, y + 15, 400, "current")}, {}, TRUE) }

Report(items, edits) ==
  [items |-> items, states |-> Statement, ours |-> TRUE, made |-> 0, edits |-> edits]

OnePage ==
  Report(TopOfTable(250) \cup Assets(1, 160) \cup NonRecurring(2, 160) \cup Total(2, 130, 30),
         ProfitEdits(250) \cup AssetEdits(1, 160) \cup Seconds(1, 100) \cup TotalEdits(2, 130))

Continued ==
  Report(TopOfTable(100) \cup Assets(2, 160) \cup NonRecurring(2, 100) \cup Total(2, 70, 30),
         ProfitEdits(100) \cup AssetEdits(2, 160) \cup TotalEdits(2, 70) \cup
         { Change({}, {Text(2, 175, 80, "section")}, {"total_assets"}, TRUE),
           Change({}, {Text(2, 175, 80, "report")}, {}, TRUE),
           Change({}, {Text(2, 175, 600, "report")}, {}, TRUE),
           Change({}, {Text(2, 175, 600, "unitWan")}, {"total_assets"}, TRUE) })

TwoHeaders ==
  Report(TopOfTable(100) \cup Header(2, 160, "currentEnd", "comparisonEnd") \cup Assets(2, 130)
           \cup NonRecurring(2, 40) \cup Total(2, 10, 30),
         ProfitEdits(100) \cup AssetEdits(2, 130) \cup Seconds(2, 90))

ThreeLayouts == {OnePage, Continued, TwoHeaders}
=============================================================================
