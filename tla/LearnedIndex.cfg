CONSTANTS
  Key <- MCKey
  Value <- MCValue
  Items <- MCItems
  Ranges <- MCRanges
  FallingKeys <- MCFalling
  SOME = 4
  MANY = 6
  GAPS = 3
  FIXED_ABOVE = 6
  GROWTH = 2
  MIN_REBUILD = 5
  MAX_DEPTH = 4
  POOL = 1
  MaxPooled = 1
SPECIFICATION MCSpec
VIEW MCView
CHECK_DEADLOCK FALSE
INVARIANTS
  IndexExact
  SearchesRight
  NoRebuildDue
  SplineWindows
  RSItemsKept
  PGMWindows
  AbsentKeysRanked
PROPERTIES
  ImplementsItems
