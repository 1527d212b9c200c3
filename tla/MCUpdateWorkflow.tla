-------------------------- MODULE MCUpdateWorkflow --------------------------
(* A first quarter that grew, as sample and as file, a half year that      *)
(* shrank, although a loss became a profit, a first quarter that shrank and*)
(* is compared with one without non-recurring items, a report the parser   *)
(* blocks and a file that is not registered.                               *)
EXTENDS UpdateWorkflow

Read(value, comparison, disclosed) ==
  [value |-> value, comparison |-> comparison, disclosed |-> disclosed]

Quarter ==
  [kind |-> "quarter", number |-> 9, clean |-> TRUE,
   metrics |-> [attr |-> Read(1200, 1000, 200), adjusted |-> Read(1100, 1000, 100),
                nonRecurring |-> Read(100, Nil, Nil)]]

HalfYear ==
  [kind |-> "half", number |-> 2, clean |-> TRUE,
   metrics |-> [attr |-> Read(1200, -1000, 2200), adjusted |-> Read(1100, 1375, -200),
                nonRecurring |-> Read(100, Nil, Nil)]]

WeakQuarter ==
  [kind |-> "quarter", number |-> 9, clean |-> TRUE,
   metrics |-> [attr |-> Read(1200, 1000, 200), adjusted |-> Read(1100, 1375, -200),
                nonRecurring |-> Read(100, 0, Nil)]]

Blocked == [Quarter EXCEPT !.clean = FALSE, !.metrics["nonRecurring"].value = Nil]

SomeFiles ==
  {[source |-> Regression, result |-> HalfYear], [source |-> Development, result |-> Blocked],
   [source |-> Development, result |-> WeakQuarter],
   [source |-> Nil, result |-> Quarter]}

(* 1203 and 1103 reconcile with each other; 1210 and 110 close the bridge  *)
(* but not the growth.                                                     *)
SomeEdits(metric) ==
  CASE metric = "attr" -> {1200, 1203, 1210}
    [] metric = "adjusted" -> {1100, 1103}
    [] metric = "nonRecurring" -> {100, 110, Nil}
=============================================================================
