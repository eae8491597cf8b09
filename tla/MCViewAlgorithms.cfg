\* Every hierarchy of four links, every tagging with three tags.
SPECIFICATION CallSpec
CONSTANTS
    Node = {1, 2, 3, 4}
    Stranger = 0
    MaxEdges = 4
    Tag = {x, y, z}
    PerTag = 3
    Nominations = 1
    LowDegree = 1
    MaxLinks = 2
INVARIANTS
    LayersAreProper
    OnlyLimitsCutOff
CHECK_DEADLOCK FALSE
