SPECIFICATION InodeSpec
CONSTANTS
    NoBlock = NoBlock
    NoData = NoData
    NoFrame = NoFrame
    NoThread = NoThread
    User = user
    Flusher = flusher
    Thread = {user, flusher}
    Block <- Inodes
    Data = {v0, v1}
    Cleared = v0
    Ops <- UserOps
    Updates <- Swap
    InodesPerBlock = 3
    PoolSize = 1
    MaxUsage = 1
    RefModulus = 4
    MaxDemand = 1
INVARIANTS
    LastWriteIsKept
    FirstSlotsReadBack
    StoppedIsDurable
VIEW View
