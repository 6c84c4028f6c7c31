SPECIFICATION Spec
CONSTANTS
    w = w
    a = a
    b = b
    Requests <- MCRequests
    Warmup = w
    WarmupLength = 1
    Priorities <- MCPriorities
    Lengths <- MCLengths
    BatchSizes <- MCBatchSizes
    MaxDrains = 1
    Rate = 1
    Capacity = 2
    Cost = 1
    MaxClock = 1
    MaxCalls = 3
SYMMETRY MCClients
CHECK_DEADLOCK FALSE
INVARIANT DrainFlushes
