SPECIFICATION IndexingSpec
CONSTANTS
    TOKEN_MAX = 3
    Rings <- MCRings
    Rows <- MCRows
    Meta <- MCMeta
    ScanTable <- MCScanTable
    Concurrency = 1
    MaxErrors = 1
    Worlds <- MCWorlds
    UseTls = TRUE
    BYTE = 2
    EPOCH_SIZE = 1
    TIMESTAMPED_SIZE = 2
    INDEX_SIZE = 2
    Targets = 2
    ColumnTypes <- MCColumnTypes
    ValueTypes <- MCValueTypes
    Filtering <- MCFiltering
    IncrementSize = 2
    MaxWrites = 2
    FtsScripts <- MCFtsScripts
    FtsQueries <- MCFtsQueries
    Threshold = 2
    OsScripts <- MCOsScripts
    Permits = 2
    MaxOsFaults = 2
CHECK_DEADLOCK FALSE
INVARIANTS DoneMeansIndexed AnswersExact FtsAnswersRight
PROPERTIES ScanEnds RefusedOnlyIfNoneServes GuardsReleased OsDrains ImplementsRowStore
