SPECIFICATION Spec
CONSTANTS
    NumRings = 3
    NumThreads = 2
    Setups <- MCSetups
    Wide = 8
    NoArea = NoArea
    Garbage <- MCGarbage
INVARIANTS RingsApart ContextTakenWhenIdle ValidatedOnce ReleasedLast
PROPERTY SessionEnds
CHECK_DEADLOCK FALSE
