\* Two tabs save up to three versions, one of them also restores some on the
\* history page; both receive one run and record two reviews of it.
SPECIFICATION Spec
CONSTANTS
  t1 = t1  t2 = t2  r1 = r1 
  Tabs <- TwoTabs
  Readers <- OneTab
  Runs <- OneRun
  Contents = {c1, g1}
  RegressionOnly = {g1}
  MaxVersions = 3
  MaxReviews = 2
  Nil = Nil
INVARIANTS OneLine WalksBack LibrariesApart RecordedOnce
PROPERTIES NothingLost
