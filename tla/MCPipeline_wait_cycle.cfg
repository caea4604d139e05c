SPECIFICATION Spec
CONSTANTS
  MaxSlot = 3
  MaxBatch = 1
  QueueHead <- EmptyQueue
  Nil = Nil
  EventCapacity = 1
  CommandCapacity = 2
  JobCapacity = 2
  JobIdSpace = 3
  MaxRestarts = 0
INVARIANT
  RunsIndefinitely
CHECK_DEADLOCK FALSE
