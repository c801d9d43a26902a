SPECIFICATION Spec
CONSTANTS
    f1 = f1
    f2 = f2
    Flow = {f1, f2}
    Job = {j1, j2, j3}
    None = None
    InputSize = 2
    OutputSize = 3
    Prefetch = 2
    MaxBatch = 2
    MaxCombination <- MCCombinations
    ZeroLength = TRUE
    Watched = {j1}
INVARIANTS FreedFlowUnused
CHECK_DEADLOCK FALSE
