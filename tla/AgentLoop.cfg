SPECIFICATION FairSpec
INVARIANTS
  CheckpointComplete
  WrapUpBounded
  OneVoice
PROPERTIES
  StopIsFinal
  LoopEnds
CONSTANTS
  Limit <- SmallLimit
  Converge <- AlmostIt
  Warn <- AlmostIt
  WrapUpMs = 1
  MaxRetries = 1
  MaxJobCompletionWakeups = 1
  MaxWrapUpIgnoredTurns = 2
  MaxEmptyRecoveries = 1
  FinalReview = TRUE
  Tokens <- OneToken
  MaxBatch = 1
  MaxNotices = 1
  MaxLives = 2
  MaxElapsed = 2
  Ceiling = 3
CHECK_DEADLOCK FALSE
