SPECIFICATION Spec
CONSTANTS
    Names <- TwoDatasets
    Labels = {1}
    Longer <- AllAlone
    Keeps = {2}
    MaxTime = 3
    MaxRuns = 3
    StepsBack = 0
CHECK_DEADLOCK FALSE
PROPERTIES
    KeepsVersions
