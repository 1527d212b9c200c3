---------------------------- MODULE ReportTables -----------------------------
(***************************************************************************)
(* The older generations of the report parser: the copy kept in the web    *)
(* application, V0.4, V0.5 and its strict form (lib/parser-v04.ts,         *)
(* lib/parser-v05.ts, lib/parser-v05-strict.ts).                           *)
(*                                                                         *)
(* A report is a set of text items with a page and a position.  A text is  *)
(* a token; a number is one of three tokens with a value: a plain number, a*)
(* percentage, or a number of percentage points.  A parsed number is kept  *)
(* in hundredths, so a percentage has the value that is written.  Items    *)
(* have no width.  Amounts are whole millions, so that the tolerance of the*)
(* profit bridge leaves equality.                                          *)
(***************************************************************************)
EXTENDS Integers, Sequences, SequencesExt, FiniteSets

CONSTANTS
  Absent,  \* no value
  Schema   \* the metrics every report must state, PRIMARY_SCHEMA

Profits == {"attributable_np", "adjusted_np"}

(* What each metric is recognised by: tokens that follow one another, in   *)
(* the order in which the fields are tried.                                *)
FieldPatterns ==
  << [key |-> "revenue", pattern |-> <<"revenue">>],
     [key |-> "adjusted_np", pattern |-> <<"deducting", "profit">>],
     [key |-> "attributable_np", pattern |-> <<"owners", "profit">>],
     [key |-> "roe", pattern |-> <<"return">>],
     [key |-> "total_assets", pattern |-> <<"assets">>] >>

IsIn(pattern, label) ==
  \E i \in 0..Len(label) - Len(pattern) :
    \A j \in DOMAIN pattern : label[i + j] = pattern[j]

MatchField(label) ==
  LET hits == {i \in DOMAIN FieldPatterns : IsIn(FieldPatterns[i].pattern, label)} IN
  IF hits = {} THEN Absent ELSE FieldPatterns[Min(hits)].key

(* The elements of a set in an order in which no two are alike.            *)
Sorted(set, Before(_, _)) ==
  [k \in 1..Cardinality(set) |->
     CHOOSE x \in set : Cardinality({y \in set : Before(y, x)}) = k - 1]

Abs(n) == IF n < 0 THEN -n ELSE n

(* parseCellNumber: the first number in a text, whatever surrounds it, so  *)
(* that the words of "down 3 points" are lost.                             *)
NumberTokens == {"number", "percent", "points"}

CellNumber(item) ==
  CASE item.text = "number" -> 100 * item.value
    [] item.text = "percent" -> item.value
    [] item.text = "points" -> 100 * Abs(item.value)
    [] OTHER -> Absent

-----------------------------------------------------------------------------
(* Rows and columns.                                                       *)

Y_TOL == 3
HEADER_Y_TOL == 28
LABEL_Y_TOL == 22

Higher(a, b) == a.page < b.page \/ (a.page = b.page /\ a.y > b.y)

ByX(items) == Sorted(items, LAMBDA a, b : a.x < b.x \/ (a.x = b.x /\ a.y > b.y))

(* groupRows: from the top, an item no lower than the tolerance below the  *)
(* first item of a row belongs to that row.                                *)
NewLine(first, line) ==
  IF \E f \in first : f.page = line.page /\ f.y - line.y <= Y_TOL THEN first
  ELSE first \cup {line}

Lines(items) == Sorted({[page |-> i.page, y |-> i.y] : i \in items}, Higher)

FirstLines(lines) ==
  LET first[k \in 0..Len(lines)] == IF k = 0 THEN {} ELSE NewLine(first[k - 1], lines[k])
  IN first[Len(lines)]

RowOf(f, first, items) ==
  {i \in items : /\ i.page = f.page /\ i.y <= f.y
                 /\ \A g \in first : g.page = f.page /\ g.y >= i.y => g.y >= f.y}

GroupRows(items) ==
  LET first == FirstLines(Lines(items))
  IN Sorted({[page |-> f.page, y |-> f.y, items |-> ByX(RowOf(f, first, items))] : f \in first}, Higher)

Texts(row) == {row.items[k].text : k \in DOMAIN row.items}
ItemsOf(rows) == UNION {ToSet(rows[k].items) : k \in DOMAIN rows}

Near(rows, row, tolerance) ==
  SelectSeq(rows, LAMBDA r : r.page = row.page /\ Abs(r.y - row.y) <= tolerance)

CurrentTexts == {"current", "currentEnd"}
ComparisonTexts == {"comparison", "comparisonEnd"}
ChangeTexts == {"change", "changePercent"}

Median(numbers) == Sorted(numbers, LAMBDA a, b : a < b)[Cardinality(numbers) \div 2 + 1]

(* The positions of a column's texts: on the row itself, or else near it.  *)
ColumnXs(row, near, texts) ==
  LET on == {i.x : i \in {j \in ToSet(row.items) : j.text \in texts}} IN
  IF on # {} THEN on ELSE {i.x : i \in {j \in ItemsOf(near) : j.text \in texts}}

(* Half-way between the columns are the bounds of their cells.             *)
Bounds(page, current, comparison, change) ==
  [page |-> page, current |-> current,
   labelMax |-> current - (comparison - current) \div 2,
   currentMax |-> (current + comparison) \div 2,
   comparisonMax |-> (comparison + change) \div 2]

(* detectPrimaryTableColumns: the first row with the texts of all three    *)
(* columns near it, in order.                                              *)
DetectColumns(rows) ==
  LET Xs(row, texts) == ColumnXs(row, Near(rows, row, HEADER_Y_TOL), texts)
      Usable(row) ==
        /\ \A texts \in {CurrentTexts, ComparisonTexts, ChangeTexts} : Xs(row, texts) # {}
        /\ Median(Xs(row, CurrentTexts)) < Median(Xs(row, ComparisonTexts))
        /\ Median(Xs(row, ComparisonTexts)) < Min(Xs(row, ChangeTexts))
      usable == {k \in DOMAIN rows : Usable(rows[k])}
  IN IF usable = {} THEN Absent ELSE
     LET row == rows[Min(usable)]
     IN Bounds(row.page, Median(Xs(row, CurrentTexts)), Median(Xs(row, ComparisonTexts)),
               Min(Xs(row, ChangeTexts)))

(* The items of a row from one position up to another.                     *)
Band(row, from, to) == SelectSeq(row.items, LAMBDA i : i.x >= from /\ i.x < to)

LeftEnd == -1000
RightEnd == 10000

LabelIn(row, labelMax) ==
  LET items == Band(row, LeftEnd, labelMax) IN [k \in DOMAIN items |-> items[k].text]

(* The number in a cell.  The texts of a cell are joined before they are   *)
(* read: two plain numbers become one, of which it matters only that it is *)
(* longer, so its first digit too many stands for the rest.                *)
BandNumber(row, from, to) ==
  LET numbers == SelectSeq(Band(row, from, to), LAMBDA i : i.text \in NumberTokens)
      joined == /\ Len(numbers) > 1 /\ numbers[1].text = "number"
                /\ numbers[2].text # "points" /\ numbers[2].value >= 0
  IN IF numbers = <<>> THEN Absent
     ELSE CellNumber(IF joined THEN [numbers[1] EXCEPT !.value = 10 * @ + 1] ELSE numbers[1])

(* Where a cell begins and ends, when labels end at labelMax.              *)
BandNumbers(row, columns, labelMax) ==
  << BandNumber(row, labelMax, columns.currentMax),
     BandNumber(row, columns.currentMax, columns.comparisonMax),
     BandNumber(row, columns.comparisonMax, RightEnd) >>

(* numericTokensForRow of V0.5: every number right of the labels.          *)
RightNumbers(row, columns) ==
  LET items == SelectSeq(row.items, LAMBDA i : i.x >= columns.labelMax /\ CellNumber(i) # Absent)
  IN [k \in DOMAIN items |-> CellNumber(items[k])]

-----------------------------------------------------------------------------
(* Metrics of the primary table.                                           *)

Nth(numbers, n) == IF n \in DOMAIN numbers THEN numbers[n] ELSE Absent

Metric(numbers) ==
  [current |-> Nth(numbers, 1), comparison |-> Nth(numbers, 2), change |-> Nth(numbers, 3)]

(* The label of a row with numbers: the texts on the left, at most 22 away,*)
(* of the rows to which no other row with numbers is nearer; of two equally*)
(* near, the upper one has it.                                             *)
NearbyLabel(row, rows, numeric, labelMax) ==
  LET Nearest(r) ==
        LET same == SelectSeq(numeric, LAMBDA n : n.page = r.page)
            best == Min({Abs(r.y - same[k].y) : k \in DOMAIN same})
        IN same[Min({k \in DOMAIN same : Abs(r.y - same[k].y) = best})]
      parts == SelectSeq(Near(rows, row, LABEL_Y_TOL),
                         LAMBDA r : row \in ToSet(numeric) /\ Nearest(r) = row)
  IN FlattenSeq([k \in DOMAIN parts |-> LabelIn(parts[k], labelMax)])

(* A metric named by several rows has the numbers of the last one.         *)
LastNamed(labels, numbers) ==
  [key \in {MatchField(labels[k]) : k \in DOMAIN labels} \ {Absent} |->
     Metric(numbers[Max({k \in DOMAIN labels : MatchField(labels[k]) = key})])]

(* parsePrimaryMetrics: cells by the bounds of the columns.                *)
MetricsV04(rows, columns) ==
  LET Numbers(row) == BandNumbers(row, columns, columns.labelMax)
      numeric == SelectSeq(rows, LAMBDA r : ToSet(Numbers(r)) # {Absent})
  IN LastNamed([k \in DOMAIN numeric |-> NearbyLabel(numeric[k], rows, numeric, columns.labelMax)],
               [k \in DOMAIN numeric |-> Numbers(numeric[k])])

(* parsePrimaryMetricsV05: the first three numbers of the row.             *)
MetricsV05(rows, columns) ==
  LET numeric == SelectSeq(rows, LAMBDA r : RightNumbers(r, columns) # <<>>)
  IN LastNamed([k \in DOMAIN numeric |-> NearbyLabel(numeric[k], rows, numeric, columns.labelMax)],
               [k \in DOMAIN numeric |-> RightNumbers(numeric[k], columns)])

(* The copy in the web application groups rows, cuts cells and finds the   *)
(* total as V0.4 does, but its labels end where the current column begins. *)
LegacyRows(items) == GroupRows(items)

LegacyColumns(rows) ==
  LET columns == DetectColumns(rows)
  IN IF columns = Absent THEN Absent ELSE [columns EXCEPT !.labelMax = columns.current]

LegacyCells(row, columns) == BandNumbers(row, columns, columns.labelMax)

(* parsePrimaryMetrics of the web application's copy: all pages, and texts *)
(* without numbers are carried to the next row with numbers on the page.   *)
MetricsLegacy(rows, columns) ==
  LET Numbers(row) == LegacyCells(row, columns)
      numeric == {k \in DOMAIN rows : ToSet(Numbers(rows[k])) # {Absent}}
      Carried(k) ==
        LET before == {j \in numeric : j < k} \cup {0}
        IN {j \in Max(before) + 1..k : rows[j].page = rows[k].page}
      order == Sorted(numeric, LAMBDA a, b : a < b)
      Label(k) == FlattenSeq([j \in 1..Cardinality(Carried(k)) |->
                    LabelIn(rows[Min(Carried(k)) + j - 1], columns.labelMax)])
  IN LastNamed([n \in DOMAIN order |-> Label(order[n])],
               [n \in DOMAIN order |-> Numbers(rows[order[n]])])

(* parseNonRecurringTotal: the first total in the section, which goes on   *)
(* until one of three other headings, over page ends.                      *)
NonRecurringTotal(rows) ==
  LET InSection(k) ==
        \E h \in 1..k - 1 : /\ "nonRecurring" \in Texts(rows[h])
                            /\ \A j \in h + 1..k : "discussion" \notin Texts(rows[j])
      IsTotal(row) ==
        \E n \in DOMAIN row.items :
          /\ n > 1 /\ row.items[1].text = "total"
          /\ CellNumber(row.items[n]) # Absent
      totals == {k \in DOMAIN rows : InSection(k) /\ "nonRecurring" \notin Texts(rows[k])
                                      /\ IsTotal(rows[k])}
      items == rows[Min(totals)].items
  IN IF totals = {} THEN Absent
     ELSE CellNumber(items[Min({n \in DOMAIN items : CellNumber(items[n]) # Absent})])

LegacyTotal(rows) == NonRecurringTotal(rows)

-----------------------------------------------------------------------------
(* Validation.                                                             *)

(* Variant: a change is taken as it is printed.                            *)
Unreconciled(metric, ratio) == ratio => metric.current - metric.comparison = metric.change

(* finiteChange: a change on the basis zero cannot be calculated, the      *)
(* difference of two ratios can.                                           *)
FiniteChange(metric, ratio) == ratio \/ metric.comparison # 0

(* The change that is printed is the calculated one, up to half a          *)
(* percentage point.                                                       *)
Reconciles(metric, ratio) ==
  /\ FiniteChange(metric, ratio)
  /\ IF ratio THEN metric.current - metric.comparison = metric.change
     ELSE 2 * Abs(100 * (metric.current - metric.comparison)
                    - metric.change * Abs(metric.comparison)) <= Abs(metric.comparison)

AllStated(metric) == Absent \notin {metric.current, metric.comparison, metric.change}

Disclosed(metrics, key) == IF key \in DOMAIN metrics THEN metrics[key].current ELSE Absent

(* approxEqual: amounts are whole millions, of which different ones differ *)
(* by more than its tolerance.                                             *)
ApproxEqual(left, right) == left = right

BridgeReconciles(metrics, nonRecurring) ==
  LET attributable == Disclosed(metrics, "attributable_np")
      adjusted == Disclosed(metrics, "adjusted_np")
  IN Absent \in {attributable, adjusted, nonRecurring} \/ ApproxEqual(attributable - nonRecurring, adjusted)

(* addNumericValidation: every metric has its three numbers, which agree,  *)
(* and the profits agree with the total between them.                      *)
NumericallyValid(metrics, nonRecurring, ratios) ==
  /\ \A key \in DOMAIN metrics : AllStated(metrics[key]) /\ Reconciles(metrics[key], key \in ratios)
  /\ BridgeReconciles(metrics, nonRecurring)

(* validate, the same in every generation: what is parsed must be complete *)
(* and reconcile.  `ratios' are the metrics compared by difference.        *)
Validated(metrics, nonRecurring, ratios) ==
  /\ nonRecurring # Absent
  /\ \A key \in Profits : Disclosed(metrics, key) # Absent
  /\ NumericallyValid(metrics, nonRecurring, ratios)

(* The copy in the web application knows no ratios.                        *)
ValidatedLegacy(metrics, nonRecurring) == Validated(metrics, nonRecurring, {})
ValidatedV04(metrics, nonRecurring) == Validated(metrics, nonRecurring, {"roe"})
ValidatedV05(metrics, nonRecurring) == Validated(metrics, nonRecurring, {"roe"})

Result(metrics, nonRecurring, promoted) ==
  [metrics |-> metrics, nonRecurring |-> nonRecurring, promoted |-> promoted]

NoMetrics == [key \in {} |-> Absent]

PageOf(rows, columns) == SelectSeq(rows, LAMBDA r : r.page = columns.page)

(* Metrics and total, promoted if there is a primary table and they hold.  *)
Read(columns, metrics, total, Valid(_, _)) ==
  Result(metrics, total, columns # Absent /\ Valid(metrics, total))

(* parseFinancialReport of the web application's copy, of V0.4, and        *)
(* parseFinancialReportV05, once the columns were looked for.              *)
ReadLegacy(rows, columns) ==
  Read(columns, IF columns = Absent THEN NoMetrics ELSE MetricsLegacy(rows, columns),
       LegacyTotal(rows), ValidatedLegacy)

ReadV04(rows, columns) ==
  Read(columns, IF columns = Absent THEN NoMetrics ELSE MetricsV04(PageOf(rows, columns), columns),
       NonRecurringTotal(rows), ValidatedV04)

ReadV05(rows, columns) ==
  Read(columns, IF columns = Absent THEN NoMetrics ELSE MetricsV05(PageOf(rows, columns), columns),
       NonRecurringTotal(rows), ValidatedV05)

ParseLegacy(items) == LET rows == LegacyRows(items) IN ReadLegacy(rows, LegacyColumns(rows))
ParseV04(items) == LET rows == GroupRows(items) IN ReadV04(rows, DetectColumns(rows))
ParseV05(items) == LET rows == GroupRows(items) IN ReadV05(rows, DetectColumns(rows))

(* parseFinancialReportV05Strict: no row of the schema may be absent.      *)
Strict(result) == [result EXCEPT !.promoted = @ /\ Schema \subseteq DOMAIN result.metrics]

ParseV05Strict(items) == Strict(ParseV05(items))
=============================================================================
