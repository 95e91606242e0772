CONSTANTS
    Archives = {"src", "new"}
    Originals <- MCOriginals
    PathOrder <- MCPathOrder
    Key <- Rank
    IdPath <- ToString
    Unsafe = {"unsafe"}
    ManifestNamed <- MCManifestNamed
    Short <- MCShort
    UserPaths = {"a", "c"}
    UserBytes <- MCUserBytes
    U16Max = 2
    U32Max = 4
    MaxEdits = 2
    MaxCommands = 3
SPECIFICATION Spec
CHECK_DEADLOCK FALSE
INVARIANTS
    PackedIsDirectory
    RoundTrip
    IdsStayUnique
PROPERTIES
    SourceSurvives
    ManifestReplacedWhole
