SPECIFICATION Spec
CONSTANTS
    Name = {n1, n2, n3, n4, n5}
    Child = {c1, c2, c3}
    NoInode = NoInode
    DirectPtrs = 4
    EntriesPerBlock = 2
    FirstSlot = TRUE
    AddsToFull = FALSE
    RemovesBehind = FALSE
INVARIANTS
    EntriesFound
    NamesUnique
CHECK_DEADLOCK FALSE
