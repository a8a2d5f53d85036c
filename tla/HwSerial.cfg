SPECIFICATION Spec
CONSTANTS
    Sizes = {1, 2}
    MaxBytes = 4
    MaxReads = 4
INVARIANTS
    TypeOK
    ReturnsFullBuffer
    NoSilentLoss
PROPERTIES
    ReadEnds
CHECK_DEADLOCK FALSE
