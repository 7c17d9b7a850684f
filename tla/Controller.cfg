CONSTANTS
  NumFns = 1
  OneShot = {}
  UseFinalizer = TRUE
  MaxVersions = 6
  MaxFaults = 1
  MaxLag = 2
  Wanted <- MCWanted
SPECIFICATION FairController
INVARIANTS ControllerTypeOK RestsServed
PROPERTIES ImplementsLifecycle CreatedForTheLiving SuccessorIsServed NothingIsLeft
CHECK_DEADLOCK FALSE
