\* Two operations of two sizes, crashes at every step, and the whole recovery procedure.
SPECIFICATION RecoverySpec
CONSTANTS
  w1 = w1
  w2 = w2
  p1 = p1
  p2 = p2
  small = small
  large = large
  Ops = {op1, op2}
  Owners = {o1}
  Inputs = {i1}
  Responses = {small, large}
  Workers = {w1, w2}
  Procs = {p1, p2}
  ProcOf <- OnePerProcess
  SizeOf <- TwoSizes
  RecordUnits = 3
  MaxUnits = 5
  MaxOperations = 2
  MaxLosses = 1
  Beside = {p1}
  Nil = Nil
  Torn = Torn
SYMMETRY Symmetry
INVARIANTS
  WritersExcluded
  WithinCapacity
  LatestComesBack
PROPERTIES
  AdmittedOnlyWhenHealthy
  ResumesVerified
