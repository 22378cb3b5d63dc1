SPECIFICATION Spec
CONSTANTS
    s1 = s1
    s2 = s2
    Socks <- TwoSocks
    InvalidSockId = InvalidSockId
    Fill = TRUE
    MaxThreads = 1
    MaxSockets = 2
    MaxMessages = 1
    MaxDisconnects = 1
    FlushFails = FALSE
    SelectFails = FALSE
    Stops = FALSE
INVARIANTS
    NoAccessAfterDelete
