SPECIFICATION Spec
CONSTANTS
    IdSpace = 2
    StackIds = {1}
    StackCodes = {0}
    Requests = {"good", "long", "unknown"}
    HasReset = TRUE
    MaxSent = 2
    MaxFaults = 1
PROPERTIES
    RefusalReported
CHECK_DEADLOCK FALSE
