SPECIFICATION Spec
CONSTANTS
  File = {a, b}
  LastCluster = 4
  MaxSize = 2
  FatBlock <- TwoBlocks
INVARIANTS ClosedIsKept MediumDisjoint
SYMMETRY Files
