SPECIFICATION NodeSpec
CONSTANTS
    Environments <- MCEnvironments
    InitialEnvironments <- MCInitialEnvironments
    Versions = {0, 1}
    MaxWrites = 2
    MaxReloads = 1
    max_retries = 1
    SessionConfigs <- MCSessionConfigs
    Messages = {m1, m2}
    MaxErrors = 2
    MaxChanges = 2
    Available = 12
    BufferRatio = 100
    BUFFER_MIN = 2
    Limits = {0, 5, 11}
    MaxUsed = 12
    MaxMemoryChanges = 3
    LogStreams = {s1, s2}
    MaxPosition = 3
    CounterNames <- MCCounters
    MaxIncrements = 2
    MaxClears = 1
    MaxSessionsMade = 1
    IndexKinds = {"opensearch", "fts"}
    MaxRows = 2
    Scrapers = {g1, g2}
    MaxScrapes = 2
    MaxDrops = 1
    SimSettings <- MCSimSettings
    Simulators = {1}
    MaxSimChanges = 2
    MaxSimOps = 2
    BootConfigs <- MCBootConfigs
    MaxHangups = 1
CHECK_DEADLOCK FALSE
INVARIANTS ServedPairMatches ServersServe SessionConsistent ReportsRight
PROPERTIES ServersComeUp SessionFollowsConfig MessagesAnswered ConfigurationFollowed
