SPECIFICATION Spec
CONSTANTS
    IdSpace = 3
    StackIds = {0}
    StackCodes = {0}
    Requests = {"good"}
    HasReset = TRUE
    MaxSent = 3
    MaxFaults = 0
INVARIANTS
    ReturnedIsDone
CHECK_DEADLOCK FALSE
