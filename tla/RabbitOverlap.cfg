SPECIFICATION Spec
CONSTANTS
    App = {german_shepherd}
    Proc = {p1, p2}
    MaxAttempts = 1
    MaxCreates = 3
    MaxDeletes = 1
    MaxOutages = 2
CHECK_DEADLOCK FALSE
INVARIANTS
    TypeOK
    UrlWasAccepted
PROPERTIES
    CreateLeavesUsableAccount
