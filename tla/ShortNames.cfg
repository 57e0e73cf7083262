SPECIFICATION Spec
CONSTANTS
  Radix = 4
  Places = 6
INVARIANT ShortNamesUnique
