SPECIFICATION Spec
CONSTANTS
  LastCluster = 5
  BufSize = 2
  StackSize = 2
  File = {a, b}
  Slots = 2
  SeekSize = 2
  ClusterBytes = 1
  MaxSize = 4
  ByPath = FALSE
  Media <- OnlyEmpty
INVARIANT UsesItsClusters
