CONSTANTS
  k1 = k1
  k2 = k2
  t1 = t1
  t2 = t2
  v1 = v1
  v2 = v2
  NoVal = NoVal
  Keys = {k1, k2}
  Types = {t1, t2}
  TypeOf <- TwoTypes
  Vals = {v1, v2}
  Specs <- MCSpecs
  ModifyOp <- OneOfEach
  DynamicWatches = TRUE
  Foreign = TRUE
  MaxEdits = 1
  MaxDrifts = 0
  MaxFaults = 1
SPECIFICATION Spec
INVARIANT NoOrphans
CHECK_DEADLOCK FALSE
