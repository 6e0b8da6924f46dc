CONSTANTS
  Key <- MCKey
  Value = {}
  NULL = NULL
  Nodes <- MCNodes
  HALF = 2
  CHUNK = 2
  FIXED_STEPS = 2
  MaxSlots = 5
  pow2 <- MCPow2
SPECIFICATION Spec
INVARIANTS
  SearchSafe
  ReturnsLowerBound
