\* Two writers on a shared store, every interleaving of their calls, and merges of
\* another process between any two of them.
SPECIFICATION Spec
CONSTANTS
    d1 = d1
    d2 = d2
    d3 = d3
    l1 = l1
    i1 = i1
    g1 = g1
    NoOne = NoOne
    Atom = {d1, d3, i1, g1}
    RowId = {r1, r2, r3}
    Worker = {w1, w2}
    Content = {"body", "other"}
    Source <- MCSource
    SourceOf <- MCSourceOf
    ContentOf <- MCContentOf
    Declares <- MCDeclares
    AgentSource = "agent"
    IngestSource = "ingest"
    QuarantineSources = {"logs"}
    Tagged = {d1, i1, g1}
    Substantial = {d1, d3, i1, g1}
    EmbedLive = TRUE
    EmbedResults = {"vector"}
    SharedClosed = TRUE
    Similar <- MCOneCopy
SYMMETRY MCSymmetry
INVARIANTS
    TypeOK
    QuarantineStaysUnembedded
    VectorsStayWithTheirRows
    FtsFollowsRows
PROPERTIES
    
    SupersessionIsFinal
