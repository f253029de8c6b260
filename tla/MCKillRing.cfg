SPECIFICATION Spec
CONSTANTS
    Buffers = {"x"}
    Chars = {"a", " ", "n"}
    Newline = "n"
    Space = " "
    Blanks = {" "}
    Letters = {"a"}
    Texts <- MCTexts
    MaxText = 3
    MaxSteps = 5
    MaxRing = 2
    Counts <- MCBack
    Others = TRUE
INVARIANTS
    KillsJoin
    PopReplacesYank
CHECK_DEADLOCK FALSE
