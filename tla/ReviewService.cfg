\* Two visitors of a review that ends, with senders and a provider that stall; a question, or a batch.
SPECIFICATION ServiceSpec
CONSTANTS
  v1 = v1  v2 = v2
  Readers <- Visitors
  MaxBytes = 1
  MaxClock = 6
  Deadline = 3
  Window = 2
  Limit = 1
  RequestTime = 1
  ProviderTime = 2
  MaxSetBacks = 1
  Requests <- BatchSizes
  q1 = q1  q2 = q2
  Nil = Nil  Garbled = Garbled
  Asks <- BothAsks
  Questions <- SomeQuestions
  Plans <- SomePlans
  Snapshots <- AllSnapshots
  DraftLife = 1
  MaxMinute = 2
SYMMETRY Symmetry
\* A batch runs once, and a question is asked once.
CHECK_DEADLOCK FALSE
INVARIANTS
  ReadersLetGo
  SlotHeldBounded
  LoginsLimited
  MemoIsSettled
  PaidOnceWithTrace
  RunsHold
  TaskIsSpared
PROPERTIES
  NoCallAfterDeadline
