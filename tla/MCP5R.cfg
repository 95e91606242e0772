SPECIFICATION Spec
CONSTANTS
    Bits = {0}
    Offset = 1
    Count = 4
    Width <- MCWidth
    Targets <- MCTargets
    Inputs <- MCInputs
    MaxCalls = 2
INVARIANTS
    CallIsDocumented
    LanesInBounds
CHECK_DEADLOCK FALSE
