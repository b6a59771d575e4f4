CONSTANTS
    Thread = {t1, t2, t3}
    Item = {x, y}
    Size = 2
    MaxIndex = 3
    NoItem = NoItem
    Runner = t1
SPECIFICATION FairSpec
INVARIANTS CellHasOneOwner IInv
PROPERTIES ImplementsFifo FinishesAlone
