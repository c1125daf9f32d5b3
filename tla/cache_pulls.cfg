CONSTANTS
    t1 = t1
    t2 = t2
    t3 = t3
    builder = builder
    other = other
    Puller <- MCPuller
    Process <- MCProcess
    ProcessOf <- MCProcessOf
    Retries = 2
    Crashes = TRUE
    Unremovable <- MCUnremovable
    NoChart = NoChart
SPECIFICATION Spec
INVARIANTS
    TypeOK
    CacheIsWhole
    PullReturnsChart
    NoLitter
PROPERTIES
    CachedChartStays
    EveryPullEnds
