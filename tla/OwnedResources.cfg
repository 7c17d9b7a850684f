CONSTANTS
  k1 = k1
  k2 = k2
  t1 = t1
  t2 = t2
  v1 = v1
  v2 = v2
  NoVal = NoVal
  Keys = {k1, k2}
  Types = {t1, t2}
  TypeOf <- TwoTypes
  Vals = {v1, v2}
  Specs <- MCSpecs
  ModifyOp <- OneOfEach
  DynamicWatches = TRUE
  Foreign = FALSE
  MaxEdits = 1
  MaxDrifts = 1
  MaxFaults = 1
SPECIFICATION FairSpec
INVARIANTS TypeOK PruneKeepsEnabled NoLostWakeup
PROPERTIES ComesToRest Converges
CHECK_DEADLOCK FALSE
