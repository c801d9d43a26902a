SPECIFICATION Spec
CONSTANTS
    Flow = {f1, f2}
    Job = {j1, j2, j3}
    None = None
    Room = 2
    CountMod = 5
    MaxCount = 4
    MaxBatch = 2
    Modes = {TRUE, FALSE}
INVARIANTS NoFlowFreedInUse
PROPERTIES JobsComplete DestroyedFlowFreed
CHECK_DEADLOCK FALSE
