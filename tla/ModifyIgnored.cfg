CONSTANTS
  a = a
  b = b
  i = i
  o = o
  v1 = v1
  v2 = v2
  Absent = Absent
  Leaves = {a, b, i, o}
  Vals = {v1, v2}
  InitialEnsure <- MCInitialEnsure
  Templates <- MCTemplates
  Configs <- MCConfigs
  Default <- MCDefault
  MaxEdits = 0
  MaxDrifts = 2
  MaxFaults = 0
SPECIFICATION Spec
PROPERTY IgnoredKept
CHECK_DEADLOCK FALSE
