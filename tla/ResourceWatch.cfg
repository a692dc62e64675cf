SPECIFICATION FairSpec
CONSTANTS
  t1 = t1
  t2 = t2
  None = None
  Tasks = {t1, t2}
  Uris <- MCUris
  Requests <- MCRequests
  Starts <- MCStarts
  Concurrency = 1
  MaxRequests = 2
  MaxTroubles = 1
INVARIANTS TypeOK IndexExact WatchFollows RunUndisturbed
PROPERTIES SaveAtomic RunEnds
CHECK_DEADLOCK FALSE
