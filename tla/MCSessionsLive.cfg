SPECIFICATION FairSpec
CONSTANTS
    s1 = s1
    s2 = s2
    r1 = r1
    r2 = r2
    i1 = i1
    i2 = i2
    Shared = Shared
    None = None
    CookieNames = {"a"}
    Hosts = {"here", "there"}
    Paths = {"/", "/account"}
    Nothing = Nothing
    Sessions <- MCOneSession
    Requests <- MCRequestSet
    Ids <- MCIdSet
    IdOf <- MCOneId
PROPERTY ClosedJarReclaimed
CHECK_DEADLOCK FALSE
