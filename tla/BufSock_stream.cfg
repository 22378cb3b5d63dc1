SPECIFICATION FairSpec
CONSTANTS
    HeaderSize = 2
    Lengths = {1, 3, 5}
    MaxExpected = 3
    WireSize = 3
    BigBuffer = 5
    ByTime = TRUE
    BySize = TRUE
    TriggerSize = 4
    MaxBlocks = 5
    Closes = TRUE
INVARIANTS
    BytesAreWhole
PROPERTIES
    ChannelSpec
    EverythingArrives
