SPECIFICATION Spec
CONSTANTS
  a = a
  b = b
  root = root
  sub = sub
  Root = root
  SubDir = {sub}
  Name = {a, b}
  Rpc = {ee}
  Handle = {fd}
  SectorSlots = 2
  Sectors = 2
  NoDir = none
  Changing <- MCChanging
  Contents <- MCContents
INVARIANTS TypeOK ListedExactly
PROPERTIES ListingEnds
