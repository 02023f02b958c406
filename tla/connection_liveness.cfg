SPECIFICATION FairSpec
CONSTANTS
  MaxSegs = 1
  MaxJobs = 2
  InactiveOn = TRUE
PROPERTIES CloseCompletes RequestsAnswered ResetReclaims
CHECK_DEADLOCK FALSE
