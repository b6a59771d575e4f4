SPECIFICATION FairPinSpec
CONSTANTS
    NoBlock = NoBlock
    NoData = NoData
    NoFrame = NoFrame
    NoThread = NoThread
    Thread = {t1, t2}
    Block = {b1, b2, b3}
    Data = {v1}
    Ops <- LiveOps
    PoolSize = 2
    MaxUsage = 1
    RefModulus = 4
    MaxDemand = 2
INVARIANTS
    PinnedIsResident
    RefCountExact
PROPERTIES
    CallsComplete
    EvictionFindsFrame
