CONSTANTS
  Workers = {w1, w2}
  Types = {t1, t2}
  NoWorker = NoWorker
  DynamicWatches = TRUE
  MaxFaults = 0
SPECIFICATION Spec
INVARIANT NoDuplicates
