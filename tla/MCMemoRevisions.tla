--------------------------- MODULE MCMemoRevisions ---------------------------
(***************************************************************************)
(* A small instance of MemoRevisions for TLC.                              *)
(***************************************************************************)
EXTENDS MemoRevisions, TLC

CONSTANTS t1, t2, r1, r2, m1, m2

TwoTabs == {t1, t2}
TwoRuns == {r1, r2}
TwoMemos == {m1, m2}
(* Bound: runs are reviewed before the first revision is written, though   *)
(* appends may be under way by then.  NothingIsWrittenUnseen and the other *)
(* theorems have no such bound.                                            *)
ReviewsFirst ==
  revisions = <<>> \/ (runReviews = <<>> /\ \A t \in Tabs : judging[t] = NoJudgement)
BoundedSpec == Init /\ [][Next /\ ReviewsFirst']_vars

Symmetry == Permutations(TwoTabs) \cup Permutations(TwoRuns) \cup Permutations(TwoMemos)
=============================================================================
