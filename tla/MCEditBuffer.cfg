SPECIFICATION Spec
CONSTANTS
    Byte <- MCByte
    Lead <- MCLead
    Cont <- MCCont
    Inputs <- MCInputs
    Original <- MCOriginal
    Positions = {0, 2, 4}
    Counts = {1, 2}
    MaxSize = 4
    MaxEdits = 2
    MaxGroup = 1
INVARIANTS
    TypeOK
    CleanMeansSaved
    LogIsAPath
    UndoIsPerCommand
    CursorOnBoundary
    SetTextTakes
CHECK_DEADLOCK FALSE
