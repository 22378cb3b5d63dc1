SPECIFICATION FairSpec
CONSTANTS
    srv = srv
    clt = clt
    tlisten = tlisten
    trecv = trecv
    tclient = tclient
    Main = Main
    Bases <- ServerBases
    Threads <- ServerThreads
    Owner <- ServerOwner
    Listeners <- ListenThreads
    Clients <- NoClients
    PipeCap = 2
    MaxPush = 3
    MaxEvents = 0
    MaxStale = 0
    Blocking = TRUE
INVARIANTS
    QueueOrder
PROPERTIES
    EverythingDelivered
