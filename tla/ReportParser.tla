---------------------------- MODULE ReportParser -----------------------------
(***************************************************************************)
(* The report parser in use: V0.6 and its strict form                      *)
(* (lib/parser-primary-layout.ts, lib/parser-v06.ts,                       *)
(* lib/parser-v06-strict.ts).                                              *)
(*                                                                         *)
(* It reads bounded segments of the primary table instead of a page, and   *)
(* refuses what the older generations would guess.                         *)
(***************************************************************************)
EXTENDS ReportTables

(* parseLayoutNumber: a text that is a number and nothing else.  The unit  *)
(* of a row or column applies to a plain number only.                      *)
LayoutNumber(item, inheritedPercent) ==
  CASE item.text = "number" -> IF inheritedPercent THEN item.value ELSE 100 * item.value
    [] item.text \in {"percent", "points"} -> item.value
    [] OTHER -> Absent

(* The numbers of a row right of its label, in their order.                *)
NumericItems(row, header) ==
  ByX({i \in ToSet(row.items) : i.x >= header.labelMax /\ i.text \in NumberTokens})

Left(row, header) == LabelIn(row, header.labelMax)

PrimaryRowLabel(row, rows, header) ==
  NearbyLabel(row, rows, SelectSeq(rows, LAMBDA r : NumericItems(r, header) # <<>>),
              header.labelMax)

IsPrimaryLabel(label) == MatchField(label) # Absent

-----------------------------------------------------------------------------
(* Headers.                                                                *)

Increasing(xs) == \A i, j \in DOMAIN xs : i < j => xs[i] < xs[j]

(* The items of a header that has its current column in this row.          *)
HeaderItems(row, rows, texts) ==
  {i \in ItemsOf(Near(rows, row, HEADER_Y_TOL)) : i.text \in texts}

CurrentItems(row) == {i \in ToSet(row.items) : i.text \in CurrentTexts}

(* A lone current column is no header.                                     *)
MarksHeader(row, rows) ==
  CurrentItems(row) # {} /\ HeaderItems(row, rows, ComparisonTexts \cup ChangeTexts) # {}

(* detectHeader, for a row that marks one: Absent if a column is missing or   *)
(* there are two of it.                                                    *)
DetectHeader(row, rows) ==
  LET Of(texts) == HeaderItems(row, rows, texts)
      Xs(items) == {i.x : i \in items}
      current == CurrentItems(row)
      comparisons == Of(ComparisonTexts)
      changes == Of(ChangeTexts)
      before == Of({"before"})
      after == Of({"after"})
      columns == DetectColumns(Near(rows, row, HEADER_Y_TOL))
      AtEnd(items) == \E i \in items : i.text \in {"currentEnd", "comparisonEnd"}
      compared == IF before = {} THEN <<Min(Xs(comparisons))>> ELSE <<Min(Xs(before)), Min(Xs(after))>>
      anchors == <<Min(Xs(current))>> \o compared \o <<Median(Xs(changes))>>
      change == Min(Xs(changes))
      head == Of(CurrentTexts \cup ComparisonTexts \cup ChangeTexts \cup {"before", "after"})
                \cup {i \in Of({"percentSign"}) : i.x >= change}
  IN IF /\ comparisons # {} /\ changes # {}
        /\ Cardinality(Xs(current)) = 1 /\ Cardinality(Xs(comparisons)) = 1
        /\ AtEnd(current) = AtEnd(comparisons)
        /\ columns # Absent
        /\ Cardinality(before) = Cardinality(after) /\ Cardinality(before) <= 1
        /\ Increasing(anchors)
     THEN [page |-> row.page,
           top |-> Max({i.y : i \in head}), bottom |-> Min({i.y : i \in head}),
           labelMax |-> columns.labelMax, anchors |-> anchors,
           comparisonIndex |-> IF before = {} THEN 2 ELSE 3,
           changePercent |-> \E i \in head : /\ i.x >= change
                                             /\ i.text \in {"changePercent", "percentSign"}]
     ELSE Absent

(* alignedPrimaryCells: as many numbers as columns, each near its column.  *)
AlignedCells(row, header) ==
  LET cells == NumericItems(row, header)
      anchors == header.anchors
      n == Len(anchors)
      Gap(k) == anchors[k + 1] - anchors[k]
      Aligned(k) ==
        LET leftGap == IF k = 1 THEN Gap(1) ELSE Gap(k - 1)
            rightGap == IF k < n THEN Gap(k) ELSE leftGap
        IN /\ 2 * (cells[k].x - anchors[k]) >= -leftGap
           /\ cells[k].x - anchors[k] <= rightGap
  IN IF Len(cells) = n /\ \A k \in 1..n : Aligned(k) THEN cells ELSE Absent

StartsWith(label, tokens) == label # <<>> /\ label[1] \in tokens

(* A new section or a note ends a table, and so does the head of a table   *)
(* that compares balances.                                                 *)
EndsTable(row, header) ==
  \/ StartsWith(Left(row, header), {"section", "note"})
  \/ "item" \in ToSet(Left(row, header)) /\ "balances" \in Texts(row)

-----------------------------------------------------------------------------
(* Segments of the primary table.  `state' is "open" while rows belong to  *)
(* the last segment, and "awaited" at the top of the page that may continue*)
(* it.                                                                     *)

Latest(found) == found.segments[Len(found.segments)]

Top(rows, page) == Max({rows[k].y : k \in {j \in DOMAIN rows : rows[j].page = page}})

NamesPrimary(row, segment) == IsPrimaryLabel(PrimaryRowLabel(row, segment.rows, segment.header))

(* A table goes on only on the next page, when its last row is in the last *)
(* quarter of its page.                                                    *)
TurnPage(found, row, rows) ==
  LET segment == Latest(found)
      primary == {k \in DOMAIN segment.rows : /\ NumericItems(segment.rows[k], segment.header) # <<>>
                                               /\ NamesPrimary(segment.rows[k], segment)}
      awaited == /\ found.state = "open"
                 /\ row.page = segment.page + 1
                 /\ primary # {}
                 /\ 4 * segment.rows[Max(primary)].y <= Top(rows, segment.page)
  IN IF row.page = found.page THEN found
     ELSE [found EXCEPT !.page = row.page, !.state = IF awaited THEN "awaited" ELSE "closed"]

Begin(found, header, page, continuation) ==
  [found EXCEPT !.state = "open",
     !.segments = Append(@, [header |-> header, page |-> page, continuation |-> continuation,
                             rows |-> <<>>])]

(* A header opens a segment of its own.  An incomplete one closes, and is a*)
(* problem only inside a table that was primary so far.                    *)
MeetHeader(found, header, row) ==
  LET wasPrimary == /\ found.state = "open"
                    /\ \E k \in DOMAIN Latest(found).rows :
                         NamesPrimary(Latest(found).rows[k], Latest(found))
  IN IF header = Absent
     THEN [found EXCEPT !.state = "closed", !.problem = @ \/ wasPrimary]
     ELSE Begin(found, header, row.page, FALSE)

(* The first text on the left of the next page decides: it must name a     *)
(* primary metric, with aligned numbers, at the top.                       *)
Continue(found, row, rows) ==
  LET header == Latest(found).header
      near == Near(rows, row, LABEL_Y_TOL)
      label == FlattenSeq([k \in DOMAIN near |-> Left(near[k], header)])
  IN IF Left(row, header) = <<>> THEN found
     ELSE IF /\ IsPrimaryLabel(label)
             /\ \E k \in DOMAIN near : AlignedCells(near[k], header) # Absent
             /\ ~EndsTable(row, header)
             /\ 4 * row.y >= 3 * Top(rows, row.page)
          THEN Begin(found, header, row.page, TRUE)
          ELSE [found EXCEPT !.state = "closed"]

(* Variant: what follows a table belongs to it until the next header.      *)
TakeAnyRow(found, row) ==
  LET segment == Latest(found) IN
  IF found.state # "open" \/ (row.page = segment.header.page /\ row.y >= segment.header.bottom)
  THEN found
  ELSE [found EXCEPT !.segments[Len(found.segments)].rows = Append(@, row)]

(* A row belongs to the open segment unless it ends it.                    *)
TakeRow(found, row) ==
  LET segment == Latest(found) IN
  IF found.state # "open" \/ (row.page = segment.header.page /\ row.y >= segment.header.bottom)
  THEN found
  ELSE IF EndsTable(row, segment.header) THEN [found EXCEPT !.state = "closed"]
  ELSE [found EXCEPT !.segments[Len(found.segments)].rows = Append(@, row)]

Visit(found, row, rows) ==
  LET turned == TurnPage(found, row, rows)
  IN IF MarksHeader(row, rows) THEN MeetHeader(turned, DetectHeader(row, rows), row)
     ELSE TakeRow(IF turned.state = "awaited" THEN Continue(turned, row, rows) ELSE turned, row)

DetectPrimarySegments(rows) ==
  LET found[k \in 0..Len(rows)] ==
        IF k = 0 THEN [segments |-> <<>>, state |-> "closed", page |-> 0, problem |-> FALSE]
        ELSE Visit(found[k - 1], rows[k], rows)
  IN found[Len(rows)]

-----------------------------------------------------------------------------
(* Units: only yuan are supported, and percentages for ratios.             *)

Declares(row) == "unitWan" \in Texts(row)

StartsSection(row) == StartsWith([k \in DOMAIN row.items |-> row.items[k].text], {"section"})

(* validatePrimaryUnits: no other unit is declared above the header in the *)
(* same section, in the segment, or above a continuation.                  *)
PrimaryUnitsFit(rows, segment) ==
  LET header == segment.header
      Above(k) == rows[k].page = header.page /\ rows[k].y > header.top
      Reached(k) == \A j \in k + 1..Len(rows) : Above(j) => ~StartsSection(rows[j])
  IN /\ \A k \in DOMAIN rows : Above(k) /\ Reached(k) => ~Declares(rows[k])
     /\ \A k \in DOMAIN segment.rows : ~Declares(segment.rows[k])
     /\ segment.continuation =>
          \A k \in DOMAIN rows :
            rows[k].page = segment.page /\ rows[k].y > segment.rows[1].y => ~Declares(rows[k])

ForeignUnits == {"inWan", "inPercent"}

RowUnitFits(key, label, cells, header) ==
  key = "roe" \/ /\ ToSet(label) \cap ForeignUnits = {}
                 /\ cells # Absent => "number" = cells[1].text /\ "number" = cells[header.comparisonIndex].text

-----------------------------------------------------------------------------
(* Metrics.                                                                *)

(* The metric a row states; Absent for each number of a row whose cells are   *)
(* not aligned.                                                            *)
StatedBy(row, label, header) ==
  LET cells == AlignedCells(row, header)
      rowPercent == "inPercent" \in ToSet(label)
  IN IF cells = Absent THEN Metric(<<>>)
     ELSE Metric(<<LayoutNumber(cells[1], rowPercent),
                   LayoutNumber(cells[header.comparisonIndex], rowPercent),
                   LayoutNumber(cells[Len(cells)], header.changePercent)>>)

(* What the rows of a segment state; the key of those that state no metric *)
(* is Absent.                                                              *)
PrimaryEntry(row, label, header) ==
  [key |-> MatchField(label), metric |-> StatedBy(row, label, header),
   fits |-> RowUnitFits(MatchField(label), label, AlignedCells(row, header), header)]

PrimaryRows(segment) ==
  [k \in DOMAIN segment.rows |->
     PrimaryEntry(segment.rows[k], PrimaryRowLabel(segment.rows[k], segment.rows, segment.header),
                  segment.header)]

Stating(entries) == {k \in DOMAIN entries : entries[k].key # Absent}

LeavesNonRecurring(row) ==
  \/ StartsSection(row) \/ Texts(row) \cap {"balances", "discussion"} # {}
  \/ \A texts \in {CurrentTexts, ComparisonTexts, ChangeTexts} : Texts(row) \cap texts # {}

(* The total in a row, as it is read right under the heading.              *)
TotalIn(row) == NonRecurringTotal(<<[row EXCEPT !.items = <<[text |-> "nonRecurring"]>>], row>>)

CheckTotal(seen, row) ==
  LET gap == seen.page # 0 /\ row.page > seen.page + 1
      inside == seen.inside /\ ~gap
      declared == inside /\ (seen.declared \/ Declares(row))
      fits == Texts(row) \cap (ForeignUnits \cup {"percent", "points"}) = {}
      total == TotalIn(row)
      next == [seen EXCEPT !.page = row.page]
  IN IF "nonRecurring" \in Texts(row) THEN [next EXCEPT !.inside = TRUE, !.declared = Declares(row)]
     ELSE IF ~inside \/ LeavesNonRecurring(row) THEN [next EXCEPT !.inside = FALSE, !.declared = FALSE]
     ELSE IF total = Absent THEN [next EXCEPT !.declared = declared]
     ELSE [next EXCEPT !.declared = FALSE,
             !.first = IF @ = Absent THEN total ELSE @,
             !.fits = @ /\ ~declared /\ fits /\ seen.first \in {Absent, total}]

(* nonRecurringWithValidation: totals under the heading, up to any other   *)
(* section, table or page gap.  `fits' is lost to a foreign unit or to a   *)
(* total that differs from the first.                                      *)
NonRecurringChecked(rows) ==
  LET seen[k \in 0..Len(rows)] ==
        IF k = 0 THEN [page |-> 0, inside |-> FALSE, declared |-> FALSE, first |-> Absent, fits |-> TRUE]
        ELSE CheckTotal(seen[k - 1], rows[k])
  IN seen[Len(rows)]

(* Of several rows that name a metric the first is kept.                   *)
FirstStated(entries) ==
  [key \in {entries[k].key : k \in Stating(entries)} |->
     entries[Min({k \in DOMAIN entries : entries[k].key = key})].metric]

(* The metrics and the total, promoted if no row differs from the one kept *)
(* and nothing else stands in the way.                                     *)
Judge(entries, total, unitsFit) ==
  LET metrics == FirstStated(entries) IN
  Result(metrics, total.first,
    /\ unitsFit /\ total.fits
    /\ \A k \in Stating(entries) : entries[k].fits /\ entries[k].metric = metrics[entries[k].key]
    /\ Validated(metrics, total.first, {"roe"}))

ReadSegments(rows, found) ==
  LET stated == [k \in DOMAIN found.segments |-> PrimaryRows(found.segments[k])]
  IN Judge(FlattenSeq(stated), NonRecurringChecked(rows),
       /\ found.segments # <<>> /\ ~found.problem
       /\ \A k \in DOMAIN stated : Stating(stated[k]) # {} => PrimaryUnitsFit(rows, found.segments[k]))

(* parseFinancialReportV06.                                                *)
ParseV06(items) ==
  LET rows == GroupRows(items) IN ReadSegments(rows, DetectPrimarySegments(rows))

(* parseFinancialReportV06Strict, which the research engine uses.          *)
ParseV06Strict(items) == Strict(ParseV06(items))
=============================================================================
