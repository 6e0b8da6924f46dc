CONSTANTS
  Key <- MCKey
  Value <- SampleData
  NULL = NULL
  Stale = Stale
  Trees <- MCTrees
  Batches <- MCBatches
  POOL_SIZE = 2
  MaxQueries = 4
SPECIFICATION MCSpec
INVARIANTS
  PoolExact
  LinearPoolExact
PROPERTIES
  RefinesBatchLookup
  LinearRefinesBatchLookup
  CallsReturn
