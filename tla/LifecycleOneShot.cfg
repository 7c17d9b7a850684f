CONSTANTS
  NumFns = 1
  OneShot = {1}
  UseFinalizer = TRUE
  MaxVersions = 5
  MaxFaults = 0
SPECIFICATION FairSpec
PROPERTY FinalizedIsReleased
CHECK_DEADLOCK FALSE
