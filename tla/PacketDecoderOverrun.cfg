SPECIFICATION Spec
CONSTANTS
    Half = 2
    MemSize = 3
    SyncBytes <- MCSyncBytes
    CmdOf <- MCCmdOf
    CrcByte <- MCCrcByte
INVARIANTS
    NoOverrun
CHECK_DEADLOCK FALSE
