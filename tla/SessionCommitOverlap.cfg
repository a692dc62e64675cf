SPECIFICATION Spec
CONSTANTS
  MessageCount = 1
  ArchiveCount = 2
  SlotCount = 2
  MaxRetries = 1
  Keeps = {0}
  MaxTroubles = 1
INVARIANT ArchivesDisjoint
CHECK_DEADLOCK FALSE
