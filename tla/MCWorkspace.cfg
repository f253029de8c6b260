SPECIFICATION Spec
CONSTANTS
    Names = {"a", "s"}
    Scratch = "s"
    Files = {"f"}
    Base <- MCBase
    NoFile = "none"
    Widths = {1}
    MaxChars = 1
    MaxBuffers = 2
    MaxPanes = 2
    MaxId = 4
INVARIANTS
    PanesShowBuffers
    QuitSavesAll
PROPERTIES
    KilledOnlyWhenAsked
CHECK_DEADLOCK FALSE
