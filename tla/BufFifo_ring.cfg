SPECIFICATION Spec
CONSTANTS
    HeaderSize = 1
    DefaultSize = 4
    Sizes = {1, 2, 4}
    Resizes = {0, 9}
    MaxSize = 20
    Ids = 10
INVARIANTS
    PointersAreExact
    BlocksIntact
PROPERTIES
    GrowsInProportion
