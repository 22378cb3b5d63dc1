SPECIFICATION FairSpec
CONSTANTS
    MaxConns = 3
    MaxMessages = 1
    MaxDisconnects = 2
    Partial = TRUE
    FlushFails = TRUE
    Stops = TRUE
INVARIANTS
    ToldInOrder
    ActiveDisconnectIsSilent
    PhysicalImpliesLogical
    AllReadBeforeDisconnection
PROPERTIES
    ConnectionLossIsNoticed
    DestructorEnds
