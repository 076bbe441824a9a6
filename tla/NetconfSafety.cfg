SPECIFICATION Spec
CONSTANTS
    eno1 = eno1
    eno2 = eno2
    wl = wl
    site = site
    Iface <- MCIface
    Wired <- MCWired
    Custom <- MCCustom
    Covers <- MCCovers
    Rank <- MCRank
    Setting = {home, office}
    ByHand = ByHand
    Partial = Partial
    NoFile = NoFile
    Default = Default
    Other = Other
    MaxRuns = 3
    MaxEdits = 2
CHECK_DEADLOCK FALSE
INVARIANTS
    TypeOK
PROPERTIES
    SuccessHolds
    ShowsWhatHolds
    MissingFileIsOkay
