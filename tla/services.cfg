SPECIFICATION Spec
CONSTANTS
  MaxPids = 6
  MaxCommands = 2
  MaxForeign = 1
  Residents = {"viewer of both"}
  Newcomers = {"other", "cpp viewer"}
CHECK_DEADLOCK FALSE
INVARIANTS StopLeavesNothing OneOfEach StrangersSpared
PROPERTIES ScriptEnds
