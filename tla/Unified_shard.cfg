SPECIFICATION FairSpec
CONSTANTS
    a1 = a1
    a2 = a2
    b1 = b1
    NameA = NameA
    NameB = NameB
    net = net
    NoOne = NoOne
    Services = {a1, a2, b1}
    Name <- MCName
    Net <- MCNet
    Given <- NoGiven
    Unique <- NoUnique
    BaseSId = 1
    MaxSId = 3
    MaxFaults = 2
    MaxKills = 1
INVARIANTS
    IdsAreUnique
    AwaitedAreThere
    Attribution
    UpAndDown
PROPERTIES
    DirectorySpec
    EverybodyIsTold
CHECK_DEADLOCK FALSE
