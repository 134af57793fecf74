SPECIFICATION PipelineSpec
CONSTANTS
  k1 = k1
  k2 = k2
  a = a
  b = b
  None = None
  Key = {k1, k2}
  PartitionKey = {a, b}
  PkPartition <- PartitionPerKey
  Vector = {v1}
  FilterValue = {}
  Layout = "nonpk"
  MaxTimestamp = 2
  PrimaryIncrement = 2
  PartitionIncrement = 1
  EpochCount = 2
  MaxUpdates = 3
  ChannelSize = 1
  Lossy = FALSE
SYMMETRY NonPkSymmetry
INVARIANTS
  TypeOK
  RowIdsUnique
  PartitionsConsistent
  PipelineTypeOK
  IndexExact
PROPERTY RowsOnlyAdvance
CHECK_DEADLOCK FALSE
