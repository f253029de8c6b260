SPECIFICATION SaveSpec
CONSTANTS
    p1 = p1
    p2 = p2
    None = None
    Paths = {p1, p2}
    MaxVersion = 4
    MaxStamp = 4
INVARIANTS
    SavedIsDurable
    CleanShowsFile
    NoTempLeft
PROPERTIES
    NoSilentOverwrite
    ImplementsAtomicFile
CHECK_DEADLOCK FALSE
