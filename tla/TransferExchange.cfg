SPECIFICATION Spec
CONSTANTS
    Half = 3
    MemSize = 17
    SkipMax = 4
    Requests <- MCRequests
INVARIANTS
    TypeOK
    RequestSurvives
    MosiFaithful
    AnswerFaithful
    FrameFits
    FaultNeedsLongFields
CHECK_DEADLOCK FALSE
