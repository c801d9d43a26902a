SPECIFICATION Spec
CONSTANTS
    NumRings = 3
    NumThreads = 2
    Setups <- MCSetups
    Wide = 8
    NoArea = NoArea
    Garbage <- MCGarbage
INVARIANT Ring0NeverLast
CHECK_DEADLOCK FALSE
