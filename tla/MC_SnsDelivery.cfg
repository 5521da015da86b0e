SPECIFICATION Spec
CONSTANTS
  Retries = 1
  MaxJobs = 2
  MaxCrashes = 1
  MaxFaults = 1
INVARIANTS
  TypeOK
  StoredInTurn
  OutcomesAreEarned
PROPERTIES
  ResumesAfterRestart
  TendedJobsLeave
CHECK_DEADLOCK FALSE
