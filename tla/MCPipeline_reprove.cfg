SPECIFICATION Spec
CONSTANTS
  MaxSlot = 2
  MaxBatch = 2
  QueueHead <- BurstQueue
  Nil = Nil
  EventCapacity = 1
  CommandCapacity = 2
  JobCapacity = 2
  JobIdSpace = 3
  MaxRestarts = 0
PROPERTY
  ProvesEachInputOnce
CHECK_DEADLOCK FALSE
