SPECIFICATION ReplicationSpec
CONSTANTS
  k1 = k1
  k2 = k2
  a = a
  b = b
  None = None
  Key = {k1, k2}
  PartitionKey = {a}
  PkPartition <- OnePartition
  Vector = {v1}
  FilterValue = {}
  Layout = "pk"
  MaxTimestamp = 3
  PrimaryIncrement = 1
  PartitionIncrement = 1
  EpochCount = 2
  MaxUpdates = 8
  Updated = {}
  Deletes = TRUE
  Reader = {wide}
  Scan = Scan
  RowChannel = 1
  Permits = 2
  LogCopies = 1
  MaxFailures = 0
INVARIANTS
  Converged
