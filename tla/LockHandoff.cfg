\* A job with one retry and its semantic message, one restart, cancellation and another request for the path.
SPECIFICATION FairSpec
CONSTANTS
  SlotCount = 3
  IdCount = 10
  RetryLimit = 1
  MaxRestarts = 1
  None = None
CHECK_DEADLOCK FALSE
INVARIANTS TypeOK LeaseBacked OneHolderUntilRestart
PROPERTIES ParkedAdopted
