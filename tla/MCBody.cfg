SPECIFICATION BodyFairSpec
CONSTANTS
    r1 = r1
    Requests <- MCRequests
    Observed <- MCRequests
    Timed <- MCRequests
    MaxChunks = 3
INVARIANTS
    ReadInOrder
    LostOnlyByExpiry
    NothingLeftBehind
PROPERTY TimedBodySettles
CHECK_DEADLOCK FALSE
