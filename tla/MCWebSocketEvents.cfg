SPECIFICATION FairSpec
CONSTANTS
    f1 = f1
    f2 = f2
    s1 = s1
    None = None
    Listeners <- MCListeners
    Signals <- MCSignals
    Listened <- MCListened
    MaxOrder = 3
    MaxPending = 1
INVARIANTS
    ListenersRunInTurn
    SignalsMatch
PROPERTIES
    OwnRemoval
    DispatchEnds
CHECK_DEADLOCK FALSE
