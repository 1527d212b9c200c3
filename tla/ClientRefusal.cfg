\* One tab and one draft: the user follows the advice to try again.
SPECIFICATION PlannedSpec
CONSTANTS
  t1 = t1  t2 = t2  p1 = p1  p2 = p2
  Tabs = {t1}
  Ids = {p1}
  MaxCalls = 4
  Nil = Nil
PROPERTIES RefusalIsFresh
