SPECIFICATION FairSpec
CONSTANTS
    Chunks = 3
    MaxResponses = 2
INVARIANTS
    
    ReadsAreExact
    ReleaseFollowsReaders
PROPERTY ConsumeSettles
CHECK_DEADLOCK FALSE
