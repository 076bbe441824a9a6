SPECIFICATION Spec
CONSTANTS
    App = {german_shepherd}
    Proc = {p1}
    MaxAttempts = 1
    MaxCreates = 1
    MaxDeletes = 0
    MaxOutages = 1
CHECK_DEADLOCK FALSE
PROPERTIES
    NewPasswordWasSet
