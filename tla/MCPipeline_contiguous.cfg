SPECIFICATION Spec
CONSTANTS
  MaxSlot = 3
  MaxBatch = 1
  QueueHead <- StepQueue
  Nil = Nil
  EventCapacity = 1
  CommandCapacity = 2
  JobCapacity = 2
  JobIdSpace = 2
  MaxRestarts = 0
INVARIANT
  NextStartsWhereProofEnds
CHECK_DEADLOCK FALSE
