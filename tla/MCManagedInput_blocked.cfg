SPECIFICATION InputSpec
CONSTANTS
    MaxThreads = 2
    JobFifoSize = 1
    InputSize = 3
    FdMod = 5
PROPERTIES NoThreadBlocked
