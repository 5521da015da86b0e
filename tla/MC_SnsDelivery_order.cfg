SPECIFICATION Spec
CONSTANTS
  Retries = 1
  MaxJobs = 2
  MaxCrashes = 0
  MaxFaults = 0
INVARIANT DeliveredInOrder
CHECK_DEADLOCK FALSE
