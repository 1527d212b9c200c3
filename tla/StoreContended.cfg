\* One identifier, contended by two sessions with two inputs from two processes.
SPECIFICATION Spec
CONSTANTS
  w1 = w1
  w2 = w2
  p1 = p1
  p2 = p2
  small = small
  Ops = {op1}
  Owners = {o1, o2}
  Inputs = {i1, i2}
  Responses = {small}
  Workers = {w1, w2}
  Procs = {p1, p2}
  ProcOf <- OnePerProcess
  SizeOf <- OneSize
  RecordUnits = 1
  MaxUnits = 2
  MaxOperations = 2
  Nil = Nil
  Torn = Torn
SYMMETRY Symmetry
INVARIANTS
  AtMostOneProviderCall
  AnsweredIsDurable
PROPERTIES
  ImplementsLedger
