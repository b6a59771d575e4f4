CONSTANTS
    Controller = {c1}
    PoolSize = 3
SPECIFICATION FairSpec
INVARIANT FlushThreadGone
PROPERTIES StopIsDurable StopReturns WritesReachDevice
