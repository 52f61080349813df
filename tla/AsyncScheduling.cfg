SPECIFICATION Spec
CONSTANTS
    Requests = {1, 2}
    num_prompt_tokens <- PromptTokens
    max_tokens <- OutputTokens
    Blocks = {1, 2, 3}
    block_size = 2
    max_model_len = 6
    max_num_scheduled_tokens = 4
    max_num_running_reqs = 2
    num_spec_tokens = 1
    num_lookahead_tokens = 0
    pp_size = 2
    Roles = {"none", "kv_producer", "kv_consumer"}
    EarlyStops = TRUE
    MaxAborts = 1
    MaxResets = 2
CHECK_DEADLOCK FALSE
INVARIANTS
    TypeOK
    StaleCountExact
    OutputsInPlace
    CommittedAreKnown
    InFlightBlocksFenced
    BlocksOwnedOnce
PROPERTIES
    RequestsEnd
