SPECIFICATION Spec
CONSTANTS
  MaxSlot = 3
  MaxBatch = 1
  QueueHead <- EmptyQueue
  Nil = Nil
  EventCapacity = 1
  CommandCapacity = 2
  JobCapacity = 2
  JobIdSpace = 2
  MaxRestarts = 0
VIEW Moving
INVARIANTS
  SerialPipeline
  ResultsMatchJobs
  ObserverNeverWaits
  RetryHasWindow
PROPERTY
  WaitCycleLasts
CHECK_DEADLOCK FALSE
