CONSTANTS
  Error = 1
  RadixBits = 2
  KeyBits = 6
  Gaps = {1, 4, 15}
  MaxKeys = 4
SPECIFICATION Spec
INVARIANTS
  ContainsKey
