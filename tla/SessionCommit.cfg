SPECIFICATION FairSpec
CONSTANTS
  MessageCount = 2
  ArchiveCount = 2
  SlotCount = 2
  MaxRetries = 1
  Keeps = {0, 1}
  MaxTroubles = 2
INVARIANTS TypeOK NothingLost ExtractedNotLive ExtractedOnce ContextComplete
PROPERTIES QueuedEnds
CHECK_DEADLOCK FALSE
