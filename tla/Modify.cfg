CONSTANTS
  a = a
  b = b
  i = i
  o = o
  v1 = v1
  v2 = v2
  Absent = Absent
  Leaves = {a, b, i, o}
  Vals = {v1, v2}
  InitialEnsure <- MCInitialEnsure
  Templates <- MCTemplates
  Configs <- MCConfigs
  Default <- MCDefault
  MaxEdits = 1
  MaxDrifts = 2
  MaxFaults = 1
SPECIFICATION FairSpec
INVARIANT TypeOK RestsInLine
PROPERTIES OthersKept WriteEnsures Settles
CHECK_DEADLOCK FALSE
