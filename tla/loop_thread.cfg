SPECIFICATION FairSpec
CONSTANTS
  Posters = {p1, p2}
  Tasks = {t1, t2, t3}
  NoTask = NoTask
INVARIANTS NoLostWakeup PointerAlive
PROPERTIES ImplementsMailbox TasksRun StopAfterStart
CHECK_DEADLOCK FALSE
