SPECIFICATION Spec
CONSTANTS
  CacheSize = 2
  IndexLimit = 2
  NumSectors = 6
  FlushTrigger = 3
  CharMod = 4
  TaxBound = 2
  Data = {a, b}
  Junk = junk
  ReadMayFail = FALSE
  WriteMayFail = FALSE
  UsesAlloc = TRUE
INVARIANT DeviceHoldsOnlyData
