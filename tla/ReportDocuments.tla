--------------------------- MODULE ReportDocuments ---------------------------
(***************************************************************************)
(* Reports as they are typeset, and what the parser makes of them.         *)
(*                                                                         *)
(* A document is a set of text items, and what its primary table states in *)
(* yuan, known from how it was made.  It is a plain report that was changed*)
(* a few times, the way the tests change their sample: a label wraps, a    *)
(* number slips, a row is missing, a table of something else follows.      *)
(***************************************************************************)
EXTENDS ReportParser

CONSTANTS
  Plain,     \* documents nothing was done to
  MaxEdits   \* changes to one document

(* What the parser is given: finitely many items, no two at one place.     *)
Items == [page : Int, y : Int, x : Int, text : STRING, value : Int]

Placed(items) ==
  /\ items \subseteq Items /\ IsFiniteSet(items)
  /\ \A i, j \in items : <<i.page, i.y, i.x>> = <<j.page, j.y, j.x>> => i = j

ASSUME DocumentAssumption ==
  /\ Absent \notin Int
  /\ \A d \in Plain : Placed(d.items) /\ \A e \in d.edits : Placed(e.add)

VARIABLE document

(* A change takes some items away, adds others, and makes the table no     *)
(* longer state some metrics.  `ours' is lost when a second table shares a *)
(* page with the primary one.                                              *)
Alteration(e) ==
  /\ e \in document.edits /\ e.remove \subseteq document.items
  /\ \A i \in e.add, j \in document.items \ e.remove :
       <<i.page, i.y, i.x>> # <<j.page, j.y, j.x>>
  /\ document.made < MaxEdits
  /\ document' = [document EXCEPT
       !.items = (@ \ e.remove) \cup e.add,
       !.states = [key \in DOMAIN @ |-> IF key \in e.lost THEN Absent ELSE @[key]],
       !.ours = @ /\ e.ours,
       !.edits = @ \ {e},
       !.made = @ + 1]

-----------------------------------------------------------------------------
(* Properties.                                                             *)

(* What may become evidence is what the primary table states: every metric *)
(* of the schema, in its own columns and in yuan, and the total of         *)
(* non-recurring items, whatever else the report contains.                 *)
PromotedIsStated ==
  document # Absent =>
    \A result \in {ParseV06Strict(document.items)} : result.promoted =>
      /\ \A key \in Schema : result.metrics[key] = document.states[key]
      /\ result.nonRecurring = document.states["non_recurring_total"]

(* No figure is made up: the three figures of a metric that may become     *)
(* evidence are numbers printed in one line, from left to right, and the   *)
(* total is one that is printed.                                           *)
Printed(figure, item) == figure # Absent /\ \E percent \in BOOLEAN : figure = LayoutNumber(item, percent)

InOneLine(a, b) == a.page = b.page /\ Abs(a.y - b.y) <= Y_TOL /\ a.x <= b.x

PrintedInLine(metric, items) ==
  \E a, b, c \in items :
    /\ Printed(metric.current, a) /\ Printed(metric.comparison, b) /\ Printed(metric.change, c)
    /\ InOneLine(a, b) /\ InOneLine(b, c) /\ InOneLine(a, c)

FiguresArePrinted ==
  document # Absent =>
    \A result \in {ParseV06Strict(document.items)} : result.promoted =>
      /\ \A key \in DOMAIN result.metrics : PrintedInLine(result.metrics[key], document.items)
      /\ \E item \in document.items : result.nonRecurring = CellNumber(item)

(* On a page that holds the primary table alone, a generation that replaces*)
(* another does not contradict it: what both promote, both read alike.     *)
GenerationsAgree ==
  document # Absent /\ document.ours =>
    LET results == {ParseLegacy(document.items), ParseV04(document.items),
                    ParseV05Strict(document.items), ParseV06Strict(document.items)}
    IN \A a, b \in {r \in results : r.promoted} :
         /\ a.nonRecurring = b.nonRecurring
         /\ \A key \in DOMAIN a.metrics \cap DOMAIN b.metrics : a.metrics[key] = b.metrics[key]
=============================================================================
