SPECIFICATION AllocatorSpec
CONSTANTS
    x1 = x1
    x2 = x2
    x3 = x3
    x4 = x4
    b1 = b1
    b2 = b2
    b3 = b3
    h1 = h1
    h2 = h2
    Handles <- MCHandles
    Blocks <- MCBlocks
    Hashes <- MCHashes
    None = None
INVARIANT AllocatorTypeOK
INVARIANT RefCounts
INVARIANT FreeListExact
INVARIANT PrefixCacheSound
INVARIANT PrivateBlocks
