SPECIFICATION Spec
CONSTANTS
    Buffer = 1
    MaxMessages = 2
    MaxSends = 2
PROPERTY ClosedIsFinal
CHECK_DEADLOCK FALSE
