SPECIFICATION FairSpec
CONSTANTS
    s1 = s1
    s2 = s2
    Socks <- TwoSocks
    InvalidSockId = InvalidSockId
    Fill = FALSE
    MaxThreads = 1
    MaxSockets = 1
    MaxMessages = 1
    MaxDisconnects = 0
    FlushFails = FALSE
    SelectFails = FALSE
    Stops = TRUE
INVARIANTS
    PoolBounded
    NoAccessAfterDelete
PROPERTIES
    SessionsSpec
    EverythingSettles
