CONSTANTS
    Thread = {t1}
    TotalBlocks = 13
    BitsPerBlock = 3
    DataStart = 8
    Value = {v}
    Zero = Zero
    MaxHeld = 5
    NoBlock = NoBlock
SPECIFICATION Spec
PROPERTY AllocExhaustive
