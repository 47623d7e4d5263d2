SPECIFICATION FairSpec
CONSTANTS
  r1 = r1
  r2 = r2
  NoRun = NoRun
  NoJob = NoJob
  Run <- TwoRuns
  Job <- TwoJobs
  MaxJobsPerSession = 1
  MaxPendingNotifications = 1
  MaxWakeups = 1
INVARIANTS
  NoticesAccountedFor
  NoLostWait
  StoppedRunAbortsItsJobs
PROPERTIES
  AnswersKnowTheJobs
  StopReapsJobs
CHECK_DEADLOCK FALSE
