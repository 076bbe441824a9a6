SPECIFICATION FairSpec
CONSTANTS
    Password = {p1, p2}
    Plain = {p1}
    Garbled = Garbled
    NoPassword = NoPassword
    MaxRequests = 3
    MaxCuts = 1
CHECK_DEADLOCK FALSE
INVARIANTS
    TypeOK
    ResultIsHonest
PROPERTIES
    LockRequestEnds
    LockIsServed
