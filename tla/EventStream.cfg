SPECIFICATION StreamFairSpec
INVARIANTS
  ViewIsPrefix
PROPERTIES
  CatchesUp
  QueueMoves
CONSTANTS
  MaxEvents = 4
  MaxCrashes = 1
  MaxResumes = 1
  MaxFails = 2
  MaxTurns = 2
  MaxAsked = 1
  MaxAnswers = 2
