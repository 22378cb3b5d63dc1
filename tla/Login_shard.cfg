SPECIFICATION FairSpec
CONSTANTS
    Users = {u1, u2}
    Fronts = {f1, f2}
    Socks = {x1, x2}
    None = None
    Threshold = 1
    PlayerLimit = 2
    MaxCookies = 2
    MaxFaults = 1
INVARIANTS
    LetIn
    UsersCounted
    PendingCounted
    OnlineIsTracked
PROPERTIES
    StatesSettle
CHECK_DEADLOCK FALSE
