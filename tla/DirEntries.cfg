SPECIFICATION Spec
CONSTANTS
  a = a
  b = b
  c = c
  Root = Root
  Name = {a, b, c}
  DirName = {c}
  Parts <- NameParts
  RootSlots = 6
  ClusterSlots = 4
  MaxClusters = 2
  MaxRecord = 8
  DeStackSize = 3
  Labelled = TRUE
INVARIANTS TypeOK EntriesWhole NothingHidden NamesOnce
PROPERTIES NamesSpec
