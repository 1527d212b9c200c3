--------------------------- MODULE MCReviewService ---------------------------
(***************************************************************************)
(* A small instance of ReviewService: two visitors, or two requests about a*)
(* question, or one batch.                                                 *)
(***************************************************************************)
EXTENDS ReviewService, TLC

CONSTANTS v1, v2, q1, q2

Visitors == {v1, v2}
BatchSizes == ("question" :> 6) @@ ("memo" :> 3)

BothAsks == {q1, q2}
SomeQuestions == [yoy : BOOLEAN, closed : BOOLEAN] \ {[yoy |-> TRUE, closed |-> TRUE]}
(* A plan within the capability, and one for each way out of it.           *)
WithinScope == [intent |-> "CHANGE_EXPLAIN", company |-> "here", period |-> "2026Q1",
                comparison |-> "2025Q1", names |-> {"node", "evidence"}]
SomePlans ==
  {WithinScope,
   [WithinScope EXCEPT !.intent = "OUT_OF_SCOPE"], [WithinScope EXCEPT !.company = "elsewhere"],
   [WithinScope EXCEPT !.period = "2025Q4"], [WithinScope EXCEPT !.comparison = Nil],
   [WithinScope EXCEPT !.comparison = "2024Q4"], [WithinScope EXCEPT !.names = {}]}
AllSnapshots == {"other", "ready", Nil}

Symmetry == Permutations(Visitors) \cup Permutations(BothAsks)
=============================================================================
