\* One proposal, three steps of this user or others.
SPECIFICATION Spec
CONSTANTS
    Proposal = {p1}
    MaxClicks = 3
    None = None
INVARIANTS
    TypeOK
PROPERTIES
    ViewsShowTheLatest
    QueueCatchesUp
CHECK_DEADLOCK FALSE
