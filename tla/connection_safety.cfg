SPECIFICATION Spec
CONSTANTS
  MaxSegs = 2
  MaxJobs = 2
  InactiveOn = TRUE
INVARIANTS TypeOK ResponsesInOrder GracefulClose BufferHandedOver ReadsResume ReleasedOnce NoDanglingTask
CHECK_DEADLOCK FALSE
