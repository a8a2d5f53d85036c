SPECIFICATION Spec
CONSTANTS
    Half = 4
    MemSize = 15
    TxMax = 9
    RxSizes = {0, 1, 9, 10, 11, 21}
    Transfers <- MCTransfers
    StackFlags = {FALSE, TRUE}
INVARIANTS
    TypeOK
    ChunkAcceptable
    DataFaithful
    HeldThroughMessage
PROPERTIES
    KeepsPromise
    TransferEnds
CHECK_DEADLOCK FALSE
