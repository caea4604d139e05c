SPECIFICATION DetectorEnvSpec
CONSTANTS
  MaxSlot = 2
  MaxBatch = 1
  QueueHead <- EarlyQueue
  Nil = Nil
  EventCapacity = 1
  CommandCapacity = 2
  JobCapacity = 2
  JobIdSpace = 3
PROPERTY
  JobStartsFresh
