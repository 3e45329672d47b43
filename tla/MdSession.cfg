CONSTANTS
    Symbols = {a, b}
    None = None
    MaxConnects = 2
    MaxTicks = 2
    MaxOthers = 1
SPECIFICATION Spec
INVARIANTS
    TypeOK
    LoginFollowsConnect
    SubscribeInSession
    NoTickLost
    CrashOnlyInClose
PROPERTIES
    SubscribedInTheEnd
    TicksAreWritten
    Reconnects
CHECK_DEADLOCK FALSE
