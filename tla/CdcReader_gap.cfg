SPECIFICATION Spec
CONSTANTS
    Streams = {s1, s2}
    Offset = 2
    SafetyIntervals = {0}
    MaxTime = 6
    MaxFaults = 2
    MaxSessions = 2
CHECK_DEADLOCK FALSE
INVARIANTS NoGap
