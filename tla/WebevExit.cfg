SPECIFICATION Spec
CONSTANTS
  x = x
  None = None
  Reqs <- Requests
  Kind <- KindOf
  MaxFds = 4
  Scripts <- OneHooked
  Bases = {b1, b2}
  MaxCount = 1
INVARIANTS
  ExitOnTimeout
CHECK_DEADLOCK FALSE
