SPECIFICATION PipelineSpec
CONSTANTS
  k1 = k1
  k2 = k2
  a = a
  b = b
  None = None
  Key = {k1, k2}
  PartitionKey = {a, b}
  PkPartition <- PartitionPerKey
  Vector = {v1, v2}
  FilterValue = {}
  Layout = "global"
  MaxTimestamp = 3
  PrimaryIncrement = 1
  PartitionIncrement = 1
  EpochCount = 2
  MaxUpdates = 3
  ChannelSize = 1
  Lossy = TRUE
SYMMETRY Symmetry
INVARIANTS
  SearchSound
CHECK_DEADLOCK FALSE
