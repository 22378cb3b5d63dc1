SPECIFICATION Spec
CONSTANTS
    s1 = s1
    s2 = s2
    Socks <- TwoSocks
    InvalidSockId = InvalidSockId
    Fill = TRUE
    MaxThreads = 2
    MaxSockets = 1
    MaxMessages = 1
    MaxDisconnects = 2
    FlushFails = TRUE
    SelectFails = TRUE
    Stops = FALSE
INVARIANTS
    Ownership
    EventOrder
    HandlerAsserts
    SocketsPerThread
