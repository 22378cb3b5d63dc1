SPECIFICATION Spec
CONSTANTS
    srv = srv
    clt = clt
    tlisten = tlisten
    trecv = trecv
    tclient = tclient
    Main = Main
    Bases <- SharedBases
    Threads <- SharedThreads
    Owner <- SharedOwner
    Listeners <- NoListeners
    Clients <- ClientBases
    PipeCap = 8
    MaxPush = 3
    MaxEvents = 1
    MaxStale = 2
    Blocking = FALSE
INVARIANTS
    TypeOK
    Ledger
    ReadNeverStuck
    FrontIsStable
    FlagIsExact
PROPERTIES
    StreamsSpec
