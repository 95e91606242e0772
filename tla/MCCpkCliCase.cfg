CONSTANTS
    Archives = {"src", "new"}
    Originals <- NoOriginals
    PathOrder <- CasePaths
    Key <- SameKey
    IdPath <- ToString
    Unsafe = {"unsafe"}
    ManifestNamed <- MCManifestNamed
    Short <- MCShort
    UserPaths = {"A", "a"}
    UserBytes <- CaseBytes
    U16Max = 2
    U32Max = 4
    MaxEdits = 2
    MaxCommands = 2
SPECIFICATION Spec
CHECK_DEADLOCK FALSE
INVARIANTS
    IdsAreDeterministic
