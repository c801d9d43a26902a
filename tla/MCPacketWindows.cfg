SPECIFICATION Spec
CONSTANTS
    Thread = {t1, t2, t3}
    NoThread = NoThread
    NumBases = 2
    NumWindows = 3
    HomeWindow = 1
SYMMETRY Symmetry
INVARIANTS PacketsReadFromTheirWindow NoRaceUnderLock OneSlotPerWindow
