\* Two tabs and one draft, whose execution may be tried more than once.
SPECIFICATION PlannedSpec
CONSTANTS
  t1 = t1  t2 = t2  p1 = p1  p2 = p2
  Tabs <- TwoTabs
  Ids = {p1}
  MaxCalls = 4
  Nil = Nil
PROPERTIES SuccessorSpared
