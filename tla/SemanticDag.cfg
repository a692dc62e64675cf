\* A root with a file and two directories of one file each, and three workers.
SPECIFICATION FairSpec
CONSTANTS
  Dirs = {"root", "a", "b"}
  Files = {"f", "g", "h"}
  Root = "root"
  Parent <- MCParent
  Anc <- MCAnc
  Required = {"f", "g", "h"}
  Recursive = TRUE
  Aggregate = TRUE
  MaxWorkers = 3
  MaxCancels = 1
CHECK_DEADLOCK FALSE
INVARIANTS TypeOK CountsExact StatsExact
PROPERTIES Implements RunReturns
