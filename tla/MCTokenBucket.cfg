SPECIFICATION BucketSpec
CONSTANTS
    Rate <- MCRate
    Capacity <- MCCapacity
    Cost <- MCCost
    MaxClock <- MCMaxClock
    MaxCalls <- MCMaxCalls
INVARIANT BucketTypeOK
INVARIANT WindowBound
PROPERTY RefusalJustified
