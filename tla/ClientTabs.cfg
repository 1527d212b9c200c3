\* Two tabs plan and execute two questions, in up to four calls.
SPECIFICATION Spec
CONSTANTS
  t1 = t1  t2 = t2  p1 = p1  p2 = p2
  Tabs <- TwoTabs
  Ids <- TwoIds
  MaxCalls = 4
  Nil = Nil
SYMMETRY Symmetry
INVARIANTS Unforgotten BusyForAReason
