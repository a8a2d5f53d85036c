SPECIFICATION Spec
CONSTANTS
    Half = 2
    MemSize = 3
    SyncBytes <- MCSyncBytes
    CmdOf <- MCCmdOf
    CrcByte <- MCCrcByte
INVARIANTS
    TypeOK
    OnlyLongZeroOverruns
    AcceptedFrame
    RefusedLength
    CrcVerdict
    OnlyLongZeroMissed
CHECK_DEADLOCK FALSE
