SPECIFICATION Spec
CONSTANTS
  MaxInput = 12
  SystemTokens = 1
  SchemaTokens = 1
  ProjectedTokens = 1
  TriggerPercent = 80
  RetainPercent = 50
  TriggerCap <- McTriggerCap
  RetainTokens <- McRetainTokens
  KeepTurns = 2
  KeepResults = 1
  BatchResults = 1
  ContextTokens = 1
  SummaryTokens = 1
  ReminderTokens = 1
  Kind <- McKind
  ToolTokens <- McToolTokens
  MaxRuns = 2
  MaxMessages = 7
  MaxOwn = 4
  MaxResumes = 1
INVARIANTS
  SummaryIsOfTheHidden
  RemindersKept
CHECK_DEADLOCK FALSE
