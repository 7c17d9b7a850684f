CONSTANTS
  Workers = {w1, w2}
  Types = {t1, t2}
  NoWorker = NoWorker
  DynamicWatches = TRUE
  MaxFaults = 2
SPECIFICATION FairSpec
INVARIANTS TypeOK ManagedIsTracked LeakIsBounded
PROPERTIES TracksOn KeepsPromise
