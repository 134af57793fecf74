SPECIFICATION ReplicasSpec
CONSTANTS
  k1 = k1
  k2 = k2
  a = a
  b = b
  None = None
  Key = {k1}
  PartitionKey = {a}
  PkPartition <- OnePartition
  Vector = {v1}
  FilterValue = {f1}
  Layout = "pk"
  MaxTimestamp = 2
  PrimaryIncrement = 1
  PartitionIncrement = 1
  EpochCount = 2
  MaxUpdates = 8
  Updated = {"vector", "filtering"}
  Deletes = TRUE
  Reader = {wide, fine}
  Scan = Scan
  RowChannel = 1
  Permits = 2
  LogCopies = 2
  MaxFailures = 2
INVARIANTS
  AllAccounted
PROPERTIES
  AllCatchUp
