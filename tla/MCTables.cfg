SPECIFICATION MCSpec
CONSTANTS
    BuilderInputs <- MCBuilderInputs
    OtherTables <- MCOtherTables
    Kinds = {"Cpk", "Toc"}
    Trailers = {0, 3}
    HeaderArea = 136
    MaxRows = 300
    DamageBytes = {0, 1, 255}
    None = None
    NoData = NoData
    Files <- MCFiles
    Spell <- MCSpell
    Names <- MCNames
    Ids <- MCIds
INVARIANTS
    ReadBack
    ReadersAgree
    LengthAsPlanned
    DamageIsContained
    ByNameIsTheCue
    ByIdIsInverse
CHECK_DEADLOCK FALSE
