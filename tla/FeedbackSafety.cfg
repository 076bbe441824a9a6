SPECIFICATION FairSpec
CONSTANTS
    Commands = 2
    Data = {11, 12}
    MaxSize = 2
CHECK_DEADLOCK FALSE
INVARIANTS
    TypeOK
    SuccessMeansComplete
    InterruptLeavesNoArchive
PROPERTIES
    InterruptEnds
