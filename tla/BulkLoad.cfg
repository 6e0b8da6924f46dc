CONSTANTS
  Key <- MCKey
  Value <- MCValue
  NULL = NULL
  leafslotmax = 3
  innerslotmax = 2
  MaxItems = 30
  Ranges <- MCRanges
  BELOW <- MCBelow
  ABOVE <- MCAbove
SPECIFICATION Spec
INVARIANTS
  LoadConsistent
  LoadedVerifies
  LoadedSearchable
  LoadedIsTheRange
PROPERTIES
  LevelsNarrow
