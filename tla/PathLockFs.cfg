\* Two owners on the filesystem provider, one of which may die.
SPECIFICATION FairSpec
CONSTANTS
  o1 = o1
  o2 = o2
  o3 = o3
  None = None
  Owners = {o1, o2}
  Paths <- MCPaths2
  Anc <- MCAnc2
  Rank <- MCRank2
  Batches <- MCMixed
  LeaseIds = {1}
  InitNodes <- MCNodes2
  Crashable = {o1}
  Removable = {"/a/b"}
  Provider = "filesystem"
INVARIANTS MutualExclusion TokensMatchLeases
PROPERTIES DeadLocksYield
