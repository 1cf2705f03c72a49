SPECIFICATION FairSpec
CONSTANTS
  Users = {a, b}
  MaxStarts = 3
  Nobody = Nobody
INVARIANTS
  FlagsHold
  ExpireStops
  NoUseAfterDestroy
PROPERTY
  ExpireReturns
CHECK_DEADLOCK FALSE
