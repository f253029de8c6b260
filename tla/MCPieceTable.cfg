SPECIFICATION Spec
CONSTANTS
    NEWLINE = "n"
    Cont = {"c"}
    Originals <- MCOriginals
    Inputs <- MCInputs
    Priority = {1, 2}
    MaxPiece = 2
    MaxAdded = 3
INVARIANTS
    HoldsText
    QueriesAgree
