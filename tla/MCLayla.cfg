SPECIFICATION Spec
CONSTANTS
    HeaderBytes = 2
    Inputs <- MCInputs
    Plain <- MCPlain
    Blocks <- MCBlocks
    BufferBytes = 380
    Stale <- MCStale
    MaxCalls = 2
INVARIANTS
    ReadsAreTheStream
    ResultIsPlain
PROPERTIES
    WritesOwnBytes
    CallReturns
CHECK_DEADLOCK FALSE
