\* One near-duplicate pass and the sweep beside writers and the operator.
SPECIFICATION FairSpec
CONSTANTS
    a1 = a1
    a2 = a2
    a3 = a3
    q1 = q1
    t1 = t1
    t2 = t2
    t3 = t3
    NoOne = NoOne
    Atom = {a1, a2, q1}
    RowId = {r1, r2, r3}
    Source <- MCSource
    SourceOf <- MCSourceOf
    Content = {"body", "related"}
    ContentOf <- MCContentOf
    Pass = {n1}
    Tag = {t1, t2, t3}
    TagsOf <- MCTagsOf
    ProjectOf <- MCOneProject
    Similar <- MCSimilar
    SafeSimilar <- MCSafeSimilar
    Conflicting = {}
    Passing = {a1, a2, q1}
    Contained = {q1}
    Declares <- MCDeclares
    ScanCap = 3
    MaxClock = 3
INVARIANTS
    TypeOK
    VectorBelongsToItsRow
    PassIsThorough
PROPERTIES
    VisibleCopyRemains
    EventuallyFolded
