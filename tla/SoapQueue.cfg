SPECIFICATION FairSpec
CONSTANTS
  MAX_QUEUE = 3
  MAX_THR = 3
  Conns = {c1, c2, c3}
  Stuck = {c1}
  Invalid = Invalid
  None = None
  Nobody = Nobody
INVARIANTS
  ExactlyOnePlace
  NoLostWakeup
  DrainedAtShutdown
  IpIndexOfLast
PROPERTIES
  ImplementsFifo
  Served
  Ends
CHECK_DEADLOCK FALSE
