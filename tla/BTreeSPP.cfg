CONSTANTS
  Key <- MCKey
  Value <- SampleData
  NULL = NULL
  Stale = Stale
  Trees <- MCTrees
  Batches <- MCBatches
  GROUP_SIZE = 2
  ShortBatch = 3
  LongBatch = 12
SPECIFICATION MCSpec
INVARIANTS
  PipelineExact
  AnsweredInOrder
  LinearPipelineExact
PROPERTIES
  RefinesBatchLookup
  LinearRefinesBatchLookup
  CallsReturn
