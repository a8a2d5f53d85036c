SPECIFICATION Spec
CONSTANTS
    Bits = {1}
    Size = 8
    BlockSize = 4
    SectorSize = 1
    PageSize = 2
    AddrSpace = 8
    AddressMod = 32
    SizeMod = 64
    IntMod = 32
    Sessions <- VerifySessions
    Inputs <- MCInputs
    Memories <- MCMemories
INVARIANTS
    SuccessMeansVerified
CHECK_DEADLOCK FALSE
