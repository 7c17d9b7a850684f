CONSTANTS
  c1 = c1
  c2 = c2
  h1 = h1
  h2 = h2
  p1 = p1
  p2 = p2
  Missing = Missing
  NoHash = NoHash
  Contents = {c1, c2}
  Hash <- MCHash
  Templates <- MCTemplates
  Replicas = {1, 2}
  IPs = {1, 2}
  NodePorts = {1, 2}
  MaxEdits = 1
  MaxChanges = 2
  MaxOthers = 1
  MaxFaults = 1
SPECIFICATION FairSpec
INVARIANTS TypeOK HashIsReal RestsInLine
PROPERTIES LiveValuesSurvive Settles
CHECK_DEADLOCK FALSE
