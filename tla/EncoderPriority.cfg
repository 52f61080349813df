SPECIFICATION Spec
CONSTANTS
    r1 = r1
    r2 = r2
    ha = ha
    hb = hb
    hc = hc
    Requests = {r1, r2}
    Identifiers = {ha, hb, hc}
    mm_features <- MeetingFeatures
    num_tokens <- SharedTokens
    Priority <- Ranks
    PolicyIsPriority = TRUE
    cache_size = 3
    num_prefill_lookahead = 0
    disable_chunked_mm_input = FALSE
    max_num_batched_tokens = 5
    max_num_encoder_input_tokens = 2
    PrefixHits = {0}
    PipelineDepth = 2
    MaxKvFailures = 1
    MaxResets = 0
CHECK_DEADLOCK FALSE
INVARIANT
    EncoderOutputsReady
