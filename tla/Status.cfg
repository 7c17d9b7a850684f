CONSTANTS
  d = d
  s = s
  Keys = {d, s}
  KindOf <- MCKindOf
  Workloads <- MCWorkloads
  Missing = Missing
  Lists <- MCLists
  MaxEdits = 1
  MaxChanges = 2
  MaxFaults = 1
SPECIFICATION FairSpec
INVARIANT TypeOK RestsReported
PROPERTIES AggregateIsWorst HealthyIsRolledOut StatusFollows
CHECK_DEADLOCK FALSE
