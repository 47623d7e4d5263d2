SPECIFICATION Spec
INVARIANTS
  NoLostCheckpoint
CONSTANTS
  s1 = s1
  NoRun = 0
  Run <- TwoTurns
  Session <- OneSession
  SessionOf <- AllInOne
  MaxCrashes = 0
  MaxResumes = 1
  StoreFaults = FALSE
  Compactable <- OneSession
