SPECIFICATION Spec
CONSTANTS
    None = None
    Symbols <- MCSymbols
    Events <- MCEvents
    QuitKeys <- MCQuitKeys
    DetachKeys <- MCDetachKeys
    FrameSize <- MCFrameSize
    MaxFrame = 7
    PasteLimit = 6
    SeqLimit = 2
    Sizes = {1, 2, 4}
    MinRows = 2
    MaxRows = 3
    MaxTyped = 2
    MaxHappens = 3
INVARIANTS
    KeysAreTyped
    ScreenIsTrue
PROPERTIES
    StopsBoth
CHECK_DEADLOCK FALSE
