SPECIFICATION Spec
CONSTANTS
    NumBlocks = 3
    NumDbs = 2
    MaxBlocks = 2
    MaxCopies = 3
INVARIANTS AssertionsHold SearchedBlocksLoaded CopiesComplete
PROPERTY LoaderFinishes
CHECK_DEADLOCK FALSE
