SPECIFICATION FairSpec
CONSTANTS
    Streams = {s1, s2}
    Offset = 1
    SafetyIntervals = {0, 1}
    MaxTime = 4
    MaxFaults = 2
    MaxSessions = 2
CHECK_DEADLOCK FALSE
INVARIANT OnlyLateLost
PROPERTIES ImplementsFeed EverythingDelivered DropEndsReader
