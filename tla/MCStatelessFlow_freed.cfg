SPECIFICATION Spec
CONSTANTS
    Flow = {f1, f2}
    Job = {j1, j2}
    None = None
    Room = 2
    CountMod = 4
    MaxCount = 3
    MaxBatch = 1
    Modes = {TRUE}
INVARIANTS FreedAfterJobs
CHECK_DEADLOCK FALSE
