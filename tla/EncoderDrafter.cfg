SPECIFICATION Spec
CONSTANTS
    r1 = r1
    r2 = r2
    ha = ha
    hb = hb
    hc = hc
    Requests = {r1, r2}
    Identifiers = {ha, hb, hc}
    mm_features <- SpacedFeatures
    num_tokens <- SpacedTokens
    Priority <- Ranks
    PolicyIsPriority = FALSE
    cache_size = 2
    num_prefill_lookahead = 2
    disable_chunked_mm_input = TRUE
    max_num_batched_tokens = 4
    max_num_encoder_input_tokens = 2
    PrefixHits = {0, 2}
    PipelineDepth = 2
    MaxKvFailures = 1
    MaxResets = 0
CHECK_DEADLOCK FALSE
INVARIANTS
    EncoderOutputsReady
PROPERTIES
    RequestsEnd
