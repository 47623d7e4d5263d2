SPECIFICATION FairSpec
CONSTANTS
  c1 = c1
  c2 = c2
  c3 = c3
  NoCall = NoCall
  Call <- ThreeCalls
INVARIANTS
  OneInstall
  WithdrawalArrives
  ToldTheOutcome
PROPERTIES
  EveryCallAnswered
CHECK_DEADLOCK FALSE
