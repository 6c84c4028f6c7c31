SPECIFICATION SequenceSpec
CONSTANTS
    c1 = c1
    c2 = c2
    b1 = b1
    b2 = b2
    b3 = b3
    i1 = i1
    i2 = i2
    Caches <- MCCaches
    Ids <- MCIds
    Blocks <- MCBlocks
    Hashes = {}
    None = None
    BlockSize = 2
    Pairs = 2
    MaxCalls = 3
SYMMETRY MCSymmetry
CHECK_DEADLOCK FALSE
INVARIANT SequenceTypeOK
INVARIANT TablesPrivate
INVARIANT NothingLeaks
