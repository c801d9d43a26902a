SPECIFICATION Spec
CONSTANTS
    NumRings = 3
    NumThreads = 2
    Setups <- MCSetups
    Wide = 8
    NoArea = NoArea
    Garbage <- MCGarbage
PROPERTY ProgramEnds
CHECK_DEADLOCK FALSE
