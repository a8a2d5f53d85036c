SPECIFICATION Spec
CONSTANTS
    IdSpace = 2
    StackIds = {1}
    StackCodes = {0}
    Requests = {"good"}
    HasReset = TRUE
    MaxSent = 3
    MaxFaults = 2
INVARIANTS
    TypeOK
    CleanSession
PROPERTIES
    KeepsPromise
    CommandEnds
CHECK_DEADLOCK FALSE
