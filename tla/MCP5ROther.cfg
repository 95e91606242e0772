SPECIFICATION Spec
CONSTANTS
    Bits = {0}
    Offset = 1
    Count = 4
    Width <- MCWidth
    Targets <- OtherTargets
    Inputs <- MCInputs
    MaxCalls = 2
INVARIANTS
    CallIsDocumented
CHECK_DEADLOCK FALSE
