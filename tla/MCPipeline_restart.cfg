SPECIFICATION Spec
CONSTANTS
  MaxSlot = 2
  MaxBatch = 2
  QueueHead <- BurstQueue
  Nil = Nil
  EventCapacity = 2
  CommandCapacity = 2
  JobCapacity = 2
  JobIdSpace = 3
  MaxRestarts = 1
INVARIANTS
  TypeOK
  HeadsAgree
PROPERTIES
  ImplementsPromise
  LostJobStops
