\* A job with descendants: restarts, a fault and a full cache.
SPECIFICATION FairSpec
CONSTANTS
  r = r
  c = c
  d = d
  None = None
  Works = {r, c, d}
  Root = r
  Cancellable = FALSE
  CacheOverflows = TRUE
  MaxCrashes = 2
  MaxFaults = 1
CHECK_DEADLOCK FALSE
INVARIANTS TypeOK FailureKept TerminalBeforeLastAck
PROPERTIES OutcomeIsSettled TaskEnds
