SPECIFICATION Spec
CONSTANTS
  Ids = {c1, c2}
  WheelSize = 2
  Timeouts = {1, 4}
  Users = "timed"
  MaxVersion = 2
  NoDeadline = NoDeadline
CHECK_DEADLOCK FALSE
INVARIANTS OneNodeCounts
PROPERTIES KeepsDeadlines
