SPECIFICATION Spec
CONSTANTS
    None = None
    world_size = 2
    use_async_scheduling = TRUE
    max_chunks = 2
    Calls <- Utilities
    BatchQueueSize = 2
    MaxCalls = 2
    MaxDeaths = 0
CHECK_DEADLOCK FALSE
INVARIANTS
    ResultsFromEachWorker
