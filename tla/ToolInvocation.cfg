SPECIFICATION FairSpec
INVARIANTS
  AtMostOnce
  ReplayFaithful
  AnsweredOnce
PROPERTIES
  ImplementsLedger
  StopLeadsToExit
CONSTANTS
  shell = shell
  alias = alias
  fetch = fetch
  NoCall = NoCall
  Call = {shell, alias, fetch}
  Operation <- McOperation
  OperationOf <- McOperationOf
  NonIdempotent <- Commands
  NetworkCall = {shell, alias, fetch}
  Modes <- AnyMode
  MaxRetry = 2
  MaxResumes = 1
  StorageFaults = {TRUE, FALSE}
CHECK_DEADLOCK FALSE
