SPECIFICATION ExecutionSpec
CONSTANTS
  k1 = k1
  k2 = k2
  k3 = k3
  b1 = b1
  b2 = b2
  Principal = p
  Backups <- TwoBackups
  Questions <- FewQuestions
  ChunkLimits <- Limits
  MAX_RETRIES = 1
  RETRY_BASE_DELAY = 1
  Timeout = 2
  Requests <- TwoRequests
  Writes <- FewWrites
  Addresses <- FewAddresses
  Slots <- FewSlots
  QueueCuts <- FewQueueCuts
  TargetCuts <- FewTargetCuts
  MAX_BATCH = 2
  MaxBlocks = 4
INVARIANTS
  ExecutionTypeOK
  ErrorMeansAllFailed
  AnswerIsWhole
  GivesUpOnOneRequest
  AnsweredInTime
  RequestsProvedInOrder
  ValuesOfOutputBlock
  HonestAnswersSuffice
  HostPredictsCursor
PROPERTY
  EveryQuestionAnswered
CHECK_DEADLOCK FALSE
