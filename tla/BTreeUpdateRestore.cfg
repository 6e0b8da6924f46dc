CONSTANTS
  Key <- MCKey
  Value <- MCValue
  NULL = NULL
  leafslotmax = 4
  innerslotmax = 4
  allow_duplicates = TRUE
  MaxItems = 17
  BELOW <- MCBelow
  ABOVE <- MCAbove
SPECIFICATION MCSpec
VIEW MCView
INVARIANTS
  RestoreTruthful
