CONSTANTS
    Archives = {"src", "new"}
    Originals <- NestedOriginals
    PathOrder <- MCPathOrder
    Key <- Rank
    IdPath <- ToString
    Unsafe = {"unsafe"}
    ManifestNamed <- MCManifestNamed
    Short <- MCShort
    UserPaths = {"c"}
    UserBytes <- MCUserBytes
    U16Max = 2
    U32Max = 4
    MaxEdits = 0
    MaxCommands = 2
SPECIFICATION Spec
CHECK_DEADLOCK FALSE
INVARIANTS
    ExtractedDataMatches
