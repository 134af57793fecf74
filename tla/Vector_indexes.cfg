SPECIFICATION MCSpec
CONSTANTS
  None = None
  PartitionId = {p1}
  Worker = {w1, w2}
  ChannelSize = 1
  Increment = 3
  MaxModify = 4
  MaxObject = 2
  MaxFailures = 1
  DiskannScripts <- MCDiskannScripts
  StoredRows <- MCStoredRows
  VectorIds = {1, 2}
  Parts = {1}
  SizeWrap = 16
  MaxDiskannFaults = 1
  GraphScripts <- MCGraphScripts
  GraphConfigs <- MCGraphConfigs
  MaxDegree = 1
  Dim = 1
  MaxGraphFaults = 1
INVARIANTS
  Exclusive
  RoomForAdds
  SearchReadsSnapshot
  EffectsInOrder
  CountExact
  DiskannKept
PROPERTIES
  DispatchEnds
