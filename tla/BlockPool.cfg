SPECIFICATION Spec
CONSTANTS
    NumGpuBlocks = 3
    k1 = k1
    k2 = k2
    r1 = r1
    r2 = r2
    Keys = {k1, k2}
    None = None
    Copies = Copies
    Requests = {r1, r2}
    KeyTokens <- MCKeyTokens
    KeyLists <- MCKeyLists
    ReportLists <- MCReportLists
    BoundaryLists <- MCBoundaryLists
    MaxHeld = 3
    MaxRefs = 7
    MaxReports = 1
SYMMETRY Symmetry
INVARIANTS
    TypeOK
    RefCntExact
    FreeQueueExact
    HashIndexConsistent
    PrimaryIsLongest
    EventsMatchIndex
