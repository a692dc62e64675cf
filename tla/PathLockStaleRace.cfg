\* Three owners on the filesystem provider meet a dead owner's token.
SPECIFICATION Spec
CONSTANTS
  o1 = o1
  o2 = o2
  o3 = o3
  None = None
  Owners = {o1, o2, o3}
  Paths <- MCPaths2
  Anc <- MCAnc2
  Rank <- MCRank2
  Batches <- MCOne
  LeaseIds = {1}
  InitNodes <- MCDirs
  Crashable = {o1}
  Removable = {}
  Provider = "filesystem"
INVARIANTS MutualExclusion
SYMMETRY Peers
