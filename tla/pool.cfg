SPECIFICATION FairSpec
CONSTANTS
  NWorkers = 2
  Callers = {c1, c2}
  t1 = t1
  t2 = t2
  t3 = t3
  Tasks <- MCTasks
  KeyOf <- MCKeyOf
  NoKey = NoKey
  NoTask = NoTask
INVARIANTS NoLostWakeup DestructorDrains
PROPERTIES ImplementsKeyedExecutor TasksRun DestructorReturns
CHECK_DEADLOCK FALSE
