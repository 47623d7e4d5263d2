SPECIFICATION StreamFairSpec
PROPERTIES
  QueueMovesAfterStop
CONSTANTS
  MaxEvents = 4
  MaxCrashes = 0
  MaxResumes = 0
  MaxFails = 2
  MaxTurns = 2
  MaxAsked = 1
  MaxAnswers = 2
