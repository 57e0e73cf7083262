SPECIFICATION Spec
CONSTANTS
  CacheSize = 3
  IndexLimit = 2
  NumSectors = 8
  FlushTrigger = 3
  CharMod = 4
  TaxBound = 2
  Data = {a}
  Junk = a
  ReadMayFail = TRUE
  WriteMayFail = TRUE
  UsesAlloc = TRUE
INVARIANTS OneSlotPerSector HeldIsCached FlagCoversDirty
