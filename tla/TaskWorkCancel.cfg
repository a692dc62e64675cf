\* Cancellation against everything else, with one restart.
SPECIFICATION Spec
CONSTANTS
  r = r
  c = c
  d = d
  None = None
  Works = {r, c, d}
  Root = r
  Cancellable = TRUE
  CacheOverflows = FALSE
  MaxCrashes = 1
  MaxFaults = 0
SYMMETRY Descendants
CHECK_DEADLOCK FALSE
INVARIANT CancelledRunsNothing
PROPERTIES NoNewWork TerminalIsFinal
