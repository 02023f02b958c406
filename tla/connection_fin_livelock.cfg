SPECIFICATION FairSpec
CONSTANTS
  MaxSegs = 1
  MaxJobs = 2
  InactiveOn = FALSE
PROPERTIES CloseTerminates
CHECK_DEADLOCK FALSE
