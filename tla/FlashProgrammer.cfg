SPECIFICATION Spec
CONSTANTS
    Bits = {1}
    Size = 6
    SectorSize = 1
    BlockSize = 3
    PageSize = 2
    AddrSpace = 6
    Polls = 2
    Jobs <- MCJobs
INVARIANTS
    TypeOK
    ChipHears
    LeavesReleased
PROPERTIES
    KeepsMemory
    CallEnds
CHECK_DEADLOCK FALSE
