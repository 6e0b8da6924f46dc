CONSTANTS
  Key <- MCKey
  Value <- MCValue
  Stale = Stale
  Trees <- MCTrees
  Batches <- MCBatches
  WindowBatches <- MCWindowBatches
  Indexes <- MCIndexes
  POOL_SIZE = 2
  MaxQueries = 3
  Error = 1
SPECIFICATION MCSpec
INVARIANTS
  PoolsExact
  GroupsExact
PROPERTIES
  RefineBatchLookup
  CallsReturn
