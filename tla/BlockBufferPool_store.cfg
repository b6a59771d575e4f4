SPECIFICATION Spec
CONSTANTS
    NoBlock = NoBlock
    NoData = NoData
    NoFrame = NoFrame
    NoThread = NoThread
    Thread = {t1, t2}
    Block = {b1, b2, b3}
    Data = {v1, v2}
    Ops <- DataOps
    PoolSize = 2
    MaxUsage = 1
    RefModulus = 4
    MaxDemand = 2
SYMMETRY Symmetry
INVARIANTS
    IInv
    MapExact
    CleanFramesMatchDevice
    VictimStaysInvalid
    FlushDurable
PROPERTIES
    ImplementsStore
    GuardIsExclusive
