CONSTANTS
  NumFns = 2
  OneShot = {}
  UseFinalizer = TRUE
  MaxVersions = 6
  MaxFaults = 1
SPECIFICATION FairSpec
INVARIANTS TypeOK FinalizedBeforeRelease ContinueIsProtected ContinueIsUnfinalized RestsHandled
PROPERTIES KeepsPromise UserEditsSurvive DeletedIsReleased LastVersionReconciled
CHECK_DEADLOCK FALSE
