CONSTANTS
    Thread = {t1, t2}
    TotalBlocks = 13
    BitsPerBlock = 3
    DataStart = 8
    Value = {v}
    Zero = Zero
    MaxHeld = 3
    NoBlock = NoBlock
SPECIFICATION Spec
INVARIANTS BitmapIsOwnership HolderSeesOwnData NeverAborts
SYMMETRY Symmetry
