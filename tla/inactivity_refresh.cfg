SPECIFICATION Spec
CONSTANTS
  Ids = {c1}
  WheelSize = 3
  Timeouts = {3}
  Users = "never"
  MaxVersion = 2
  NoDeadline = NoDeadline
CHECK_DEADLOCK FALSE
PROPERTIES OnlyInactiveReleased
