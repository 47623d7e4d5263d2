SPECIFICATION FairSpec
INVARIANTS
  StoreAgreesWithMemory
  OneExecution
  ArchivedIsQuiet
PROPERTIES
  StopIsHonoured
  ImplementsRunRecord
  StopSettles
CONSTANTS
  s1 = s1
  NoRun = 0
  Run <- TwoTurns
  Session <- OneSession
  SessionOf <- AllInOne
  MaxCrashes = 1
  MaxResumes = 1
  StoreFaults = TRUE
  Compactable <- OneSession
