SPECIFICATION Spec
CONSTANTS
  LastCluster = 5
  BufSize = 2
  StackSize = 2
  File = {a, b}
  Slots = 2
  SeekSize = 2
  ClusterBytes = 1
  MaxSize = 3
  ByPath = FALSE
  Media <- OnlyEmpty
INVARIANTS TypeOK NoCrossLinks NoLostClusters SeekTableRight UsesItsClusters
PROPERTIES CallsEnd
