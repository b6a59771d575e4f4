CONSTANTS
    Client = {c1}
    Worker <- TwoWorkers
    Task = {x, y}
    x = x
    y = y
    NumPriorities = 2
    PriorityOf <- Apart
    Weight <- Ones
    Capacity = 1
    MaxThrows = 1
    NoTask = NoTask
SPECIFICATION FairSpec
INVARIANT IInv
PROPERTIES ImplementsService AcceptedTasksEnd ShutdownEnds WorkersComeBack
CHECK_DEADLOCK FALSE
