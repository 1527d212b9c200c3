\* Two requests share the model slot of one process, which may die holding the lock.
SPECIFICATION FairSpec
CONSTANTS
  w1 = w1
  w2 = w2
  p1 = p1
  p2 = p2
  small = small
  Ops = {op1}
  Owners = {o1}
  Inputs = {i1}
  Responses = {small}
  Workers = {w1, w2}
  Procs = {p1}
  ProcOf <- BothInOne
  SizeOf <- OneSize
  RecordUnits = 1
  MaxUnits = 2
  MaxOperations = 2
  Nil = Nil
  Torn = Torn
PROPERTIES
  RequestsAnswered
  SlotReturned
