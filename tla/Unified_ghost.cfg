SPECIFICATION Spec
CONSTANTS
    a1 = a1
    a2 = a2
    b1 = b1
    NameA = NameA
    NameB = NameB
    net = net
    NoOne = NoOne
    Services = {a1, b1}
    Name <- MCName
    Net <- MCNet
    Given <- NoGiven
    Unique <- NoUnique
    BaseSId = 1
    MaxSId = 2
    MaxFaults = 1
    MaxKills = 0
INVARIANTS
    DownIsCalled
CHECK_DEADLOCK FALSE
