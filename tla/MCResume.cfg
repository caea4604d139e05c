SPECIFICATION ResumeSpec
CONSTANTS
  MaxSettled = 3
  MaxStarts = 4
  SLOTS_PER_EPOCH = 2
  EPOCHS_PER_PERIOD = 4
  MAX_REQUEST_LIGHT_CLIENT_UPDATES = 2
  MaxEpoch = 11
  None = None
  MissedSets <- SomeMissed
INVARIANTS
  ResumeTypeOK
  NeverBehindSettled
  HeadResumable
  GuestAcceptsPrepared
PROPERTIES
  DeathReachesObserver
  ObserverDeathEndsTasks
  ClientCatchesUp
  StrandedForGood
CHECK_DEADLOCK FALSE
