SPECIFICATION Spec
CONSTANTS
    Thread = {t1, t2}
    InodeCount = 2
    Block <- Blocks
    DirectPtrs = 2
    PtrsPerBlock = 3
    Width = 64
    Value = {v1, v2}
    Zero = Zero
    Illegal = 99
    MaxLinks = 2
    PerBlock = 2
    Misreads <- Misread
    NoThread = NoThread
    Serialised = TRUE
    SaveFirst = TRUE
    BlankFirst = TRUE
    AllocatesFull = FALSE
    ReloadsUsed = FALSE
SYMMETRY Symmetry
INVARIANTS
    InodeOwnedOnce
    LinksExact
    BlocksOwnedOnce
    ReadsBack
    NoStrayAccess
CHECK_DEADLOCK FALSE
