SPECIFICATION FairSpec
CONSTANTS
  QueueSize = 4
  ThreadNum = 2
  Tasks = {t1, t2, t3, t4}
  None = None
  Junk = Junk
  MaxDestroy = 3
INVARIANTS
  Counted
  RightTasks
  CleanEnd
PROPERTIES
  WaitReturns
  DestroyReturns
CHECK_DEADLOCK FALSE
