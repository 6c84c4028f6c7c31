SPECIFICATION FairSpec
CONSTANTS
    w = w
    a = a
    b = b
    Requests <- MCRequests
    Warmup = w
    WarmupLength = 1
    Priorities <- MCPriorities
    Lengths <- MCOneLength
    BatchSizes <- MCBatchSizes
    MaxDrains = 1
    Rate = 1
    Capacity = 3
    Cost = 1
    MaxClock = 0
    MaxCalls = 3
CHECK_DEADLOCK FALSE
PROPERTY EveryCallAnswered
INVARIANT DrainEmptiesQueue
