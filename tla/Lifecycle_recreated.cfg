SPECIFICATION FollowingSpec
CONSTANTS
    k1 = k1
    k2 = k2
    Metas <- MCMetas
    InitialSchema <- MCSchema
    InitialFlags <- MCFlags
    MaxDisturbances = 2
    n1 = n1
    n2 = n2
    DbNodes = {n1, n2}
    Schemas <- MCSchemas
    MaxDiscoveryFaults = 1
CHECK_DEADLOCK FALSE
INVARIANT ServedIndexScanned
