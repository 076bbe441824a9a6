SPECIFICATION Spec
CONSTANTS
    Names <- OneDataset
    Labels = {1, 2}
    Longer <- OneLonger
    Keeps = {1}
    MaxTime = 3
    MaxRuns = 3
    StepsBack = 1
CHECK_DEADLOCK FALSE
INVARIANTS
    DumpsMatchTheirNames
    FailureLeavesNoSnapshot
PROPERTIES
    RotationBounds
