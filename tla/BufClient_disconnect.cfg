SPECIFICATION Spec
CONSTANTS
    MaxConns = 2
    MaxMessages = 1
    MaxDisconnects = 1
    Partial = TRUE
    FlushFails = FALSE
    Stops = FALSE
INVARIANTS
    DisconnectIsFinal
