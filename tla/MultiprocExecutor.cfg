SPECIFICATION Spec
CONSTANTS
    None = None
    world_size = 2
    use_async_scheduling = TRUE
    max_chunks = 1
    Calls <- StepAndUtility
    BatchQueueSize = 2
    MaxCalls = 2
    MaxDeaths = 1
CHECK_DEADLOCK FALSE
INVARIANTS
    TypeOK
    AnswersPaired
PROPERTIES
    CallsReturn
