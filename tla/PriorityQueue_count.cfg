CONSTANTS
    Thread = {t1, t2, t3}
    Item = {x, y}
    Priority = {high, low}
    Capacity <- TwoCells
    SizeModulus = 8
    Poller = t1
    NoItem = NoItem
    NoPriority = NoPriority
SPECIFICATION FairSpec
INVARIANT SizeExplained
PROPERTIES UsesInnerQueues Drains
