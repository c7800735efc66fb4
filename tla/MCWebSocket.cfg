SPECIFICATION FairSpec
CONSTANTS
    Buffer = 1
    MaxMessages = 2
    MaxSends = 2
INVARIANTS
    InOrderBothWays
    QuietAfterClose
    EndIsUnderWay
    BacklogBounded
PROPERTIES
    ReleasedUnlessSendFails
    EndOfStreamSeen
    CloseCompletes
CHECK_DEADLOCK FALSE
