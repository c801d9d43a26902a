SPECIFICATION InputSpec
CONSTANTS
    MaxThreads = 2
    JobFifoSize = 2
    InputSize = 3
    FdMod = 6
INVARIANTS FdsInOrder
PROPERTY EveryPassEnds
