SPECIFICATION FairSpec
CONSTANTS
  x = x
  None = None
  Reqs <- Requests
  Kind <- KindOf
  MaxFds = 4
  Scripts <- AllScripts
  Bases = {b1, b2}
  MaxCount = 1
INVARIANTS
  Holdings
  RightStatus
PROPERTIES
  HandlerReturns
  CallReturns
CHECK_DEADLOCK FALSE
