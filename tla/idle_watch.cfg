SPECIFICATION WatchFairSpec
CONSTANTS
    r1 = r1
    r2 = r2
    r3 = r3
    Requests <- SomeRequests
    Idle = 2
PROPERTIES
    IdleMeansIdle
    IdleDaemonEnds
