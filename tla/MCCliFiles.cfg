SPECIFICATION MCSpec
CONSTANTS
    Manifests <- MCManifests
    Numbers = {0, 1, 4, 6}
    U16Max = 3
    U32Max = 5
    U64Max = 9
    Chars <- MCChars
    MaxLen = 3
    Reserved <- MCReserved
    Older <- MCOlder
INVARIANTS
    WrittenIsRead
    ReadIsUsable
    StaysInside
    UnpackedComesBack
CHECK_DEADLOCK FALSE
