SPECIFICATION Spec
CONSTANTS
    r1 = r1
    r2 = r2
    ha = ha
    hb = hb
    hc = hc
    Requests = {r1, r2}
    Identifiers = {ha, hb, hc}
    mm_features <- SharedFeatures
    num_tokens <- SharedTokens
    Priority <- Ranks
    PolicyIsPriority = FALSE
    cache_size = 3
    num_prefill_lookahead = 0
    disable_chunked_mm_input = FALSE
    max_num_batched_tokens = 3
    max_num_encoder_input_tokens = 2
    PrefixHits = {0, 2}
    PipelineDepth = 3
    MaxKvFailures = 1
    MaxResets = 1
CHECK_DEADLOCK FALSE
INVARIANTS
    TypeOK
    SlotsExact
    RefsExact
    EncoderOutputsReady
    WorkerWithinBudget
PROPERTIES
    RequestsEnd
