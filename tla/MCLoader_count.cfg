SPECIFICATION Spec
CONSTANTS
    NumBlocks = 2
    NumDbs = 1
    MaxBlocks = 1
    MaxCopies = 1
INVARIANT CopyCountAnswers
CHECK_DEADLOCK FALSE
