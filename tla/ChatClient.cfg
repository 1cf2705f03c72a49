SPECIFICATION FairSpec
CONSTANTS
  a = a
  b = b
  Clients = {a, b}
  Scripts <- AllScripts
  MAXRETRY = 2
  MaxCount = 30
  MaxSocks = 2
  MaxBlocks = 2
  MaxMerge = 2
  None = None
INVARIANTS
  Turns
PROPERTIES
  TurnComesBack
  LostEnds
CHECK_DEADLOCK FALSE
