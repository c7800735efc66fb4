SPECIFICATION Spec
CONSTANTS
    c1 = c1
    c2 = c2
    Calls <- MCCalls
    Menu <- MCMenu
    SessionHeaders <- MCSessionHeaders
    Locked <- MCLocked
    SessionTimeout = None
    ContentType = "content-type"
    Edited <- MCEdited
    MaxEdits = 0
    Keys = {"content-type", "set-cookie", "x-custom"}
    SetCookie = "set-cookie"
    Forms = {"lower", "title"}
    None = None
    Mine = Mine
    ProtocolHeader = "x-custom"
    Tokens = {"chat", "mqtt"}
    Error = Error
    Values = {"a", "b"}
    MaxTuples = 2
    chrome9 = chrome9
    firefox8 = firefox8
    NativeProfiles <- MCProfiles
    Systems = {"macos", "linux"}
    Aliases <- MCAliases
    U8 = 3
    MinBuffer = 5
    U16 = 7
    U31 = 9
    U32 = 11
INVARIANT OwnContentType
SYMMETRY CallSymmetry
CHECK_DEADLOCK FALSE
