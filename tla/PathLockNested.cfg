\* Two owners that nest leases on the memory provider, one of which may be dropped.
SPECIFICATION Spec
CONSTANTS
  o1 = o1
  o2 = o2
  o3 = o3
  None = None
  Owners = {o1, o2}
  Paths <- MCPaths2
  Anc <- MCAnc2
  Rank <- MCRank2
  Batches <- MCNested
  LeaseIds = {1, 2}
  InitNodes <- MCDirs
  Crashable = {o1}
  Removable = {}
  Provider = "memory"
INVARIANTS TypeOK MutualExclusion TokensMatchLeases
PROPERTIES OthersTokensKept
