SPECIFICATION FairSpec
CONSTANTS
    r1 = r1
    r2 = r2
    Requests <- MCRequests
    Observed <- MCObserved
    Timed <- MCTimed
INVARIANTS
    TypeOK
    RegistryScope
    AbortReachesNative
    ListenerScope
    FailureStoresNoBody
    BodyHasOwner
    PromiseKept
PROPERTIES
    ContractSpec
    CancelStops
    TimedRequestSettles
CHECK_DEADLOCK FALSE
