CONSTANTS
    Slots = {a, b, c, d}
    Sizes <- SmallSizes
SPECIFICATION FairSpec
INVARIANTS
    TypeOK
    LiveNodesDisjoint
    UsedIsHeld
PROPERTIES
    FallsBackOnlyWhenFull
    IsAllocator
    CallsReturn
