SPECIFICATION ClusterSpec
CONSTANTS
    a = a
    b = b
    x = x
    None = None
    Nodes <- MCNodes
    Static <- MCStatic
    AutoNodes <- MCAuto
    Keys <- MCKeys
    RingSize = 8
    VnodeHash <- MCVnodeHash
    KeyHash <- MCKeyHash
    IdOrder <- MCIdOrder
    MinWorkers = 1
    MaxWorkers = 3
    MaxFaults = 1
    MaxPending = 1
CHECK_DEADLOCK FALSE
INVARIANT ClusterTypeOK
INVARIANT FallbackComplete
INVARIANT NearestFirst
INVARIANT ProcessesOwned
INVARIANT NoReturn
PROPERTY RemapOnlyOwn
