\* Two tabs ask for two memo runs, record, review and revise them while storage fills
\* up, pages are closed and the keys change from elsewhere.
SPECIFICATION BoundedSpec
CONSTANTS
  t1 = t1  t2 = t2  r1 = r1  r2 = r2  m1 = m1  m2 = m2
  Tabs <- TwoTabs
  Runs <- TwoRuns
  Memos <- TwoMemos
  MaxRunReviews = 1
  MaxAlterations = 1
  MaxRevisions = 2
  MaxReviews = 1
  Nil = Nil
SYMMETRY Symmetry
\* Once every run was altered from outside, nothing is left to edit.
CHECK_DEADLOCK FALSE
INVARIANTS ReturnedIsKept
PROPERTIES SeenBeforeWritten SourceHoldsStill
