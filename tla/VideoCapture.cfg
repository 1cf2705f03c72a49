SPECIFICATION FairSpec
CONSTANTS
  Scripts <- CommandLines
  Frames = 5
  MaxBuffers = 4
  None = None
INVARIANTS
  Buffering
  WholeFile
  CleanBetween
PROPERTIES
  RoutineEnds
CHECK_DEADLOCK FALSE
