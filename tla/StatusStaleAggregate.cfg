CONSTANTS
  d = d
  s = s
  Keys = {d, s}
  KindOf <- MCKindOf
  Workloads <- MCWorkloads
  Missing = Missing
  Lists <- MCLists
  MaxEdits = 1
  MaxChanges = 0
  MaxFaults = 0
SPECIFICATION Spec
INVARIANT ReportedIsWorst
CHECK_DEADLOCK FALSE
