CONSTANTS
  Key <- MCKey
  Value <- SampleData
  NULL = NULL
  Stale = Stale
  Trees <- MCTrees
  Batches <- MCBatches
  GROUP_SIZE = 2
  innerslotmax = 3
  leafslotmax = 4
  INNER_STEPS = 2
  LEAF_STEPS = 3
  pow2 <- MCpow2
  MaxQueries = 3
SPECIFICATION MCSpec
INVARIANTS
  GroupExact
  VectorsExact
PROPERTIES
  RefinesBatchLookup
  VectorsRefineBatchLookup
