\* Two refreshes, a layout of two ticks, two slots.
SPECIFICATION Spec
CONSTANTS
    a1 = a1
    a2 = a2
    a3 = a3
    Atoms = {a1, a2, a3}
    Links <- MCLinks
    AtomSets <- MCAtomSets
    Slots = {s1, s2}
    MaxTicks = 2
    MaxRefresh = 2
    None = None
CHECK_DEADLOCK FALSE
INVARIANTS
    TypeOK
    TooltipIsNeverOrphaned
    AttachedToTheStage
    SpikesRideTheirEdge
    PoolIsConserved
    EdgesMeetTheirNodes
PROPERTIES
    LayoutSettles
