CONSTANTS
    Client = {c1}
    Worker <- OneWorker
    Task = {x, y}
    x = x
    y = y
    NumPriorities = 2
    PriorityOf <- Alike
    Weight <- Ones
    Capacity = 2
    MaxThrows = 0
    NoTask = NoTask
SPECIFICATION Spec
INVARIANT AllThreadsFinished
CHECK_DEADLOCK FALSE
