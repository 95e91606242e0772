CONSTANTS
    Jobs <- MCJobs
    Strings <- MCStrings
    PoolBytes <- LongPool
    U16Max = 65535
    U32Max = 1000000
    U64Max = 1060000
    CountMax = 3
    P5rFeature = TRUE
    Lengths <- MCLengths
    MaxChanges = 1
    Earlier <- MCEarlier
SPECIFICATION ArchiveSpec
CHECK_DEADLOCK FALSE
INVARIANTS
    TypeOK
    PlanIsDisjoint
    ChunksFitBeforeContent
    OutputIsGapless
    OkIsComplete
    FieldsFit
    DirectoryRejectsFirst
    ListingIsInput
    EntryIsItsPayload
    IndexesAgree
    ListingIsEngineLookup
    NothingDropped
PROPERTIES
    CallEnds
