SPECIFICATION ReplicationSpec
CONSTANTS
  k1 = k1
  k2 = k2
  a = a
  b = b
  None = None
  Key = {k1, k2}
  PartitionKey = {a}
  PkPartition <- OnePartition
  Vector = {v1}
  FilterValue = {}
  Layout = "nonpk"
  MaxTimestamp = 4
  PrimaryIncrement = 2
  PartitionIncrement = 1
  EpochCount = 2
  MaxUpdates = 8
  Updated = {"partition"}
  Deletes = FALSE
  Reader = {wide}
  Scan = Scan
  RowChannel = 1
  Permits = 1
  LogCopies = 1
  MaxFailures = 0
INVARIANTS
  Converged
