SPECIFICATION Spec
CONSTANTS
    c1 = c1
    dp_size = 2
    Clients = {c1}
    Requests = {1, 2}
    SyncInterval = 2
    PauseModes = {"abort", "wait", "keep"}
    MaxControls = 1
    MaxInputs = 2
    None = None
CHECK_DEADLOCK FALSE
INVARIANTS
    TypeOK
    CollectivesMatch
    PauseHolds
    ResumeAccepted
    QuietIsKnown

    
