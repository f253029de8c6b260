SPECIFICATION FairSpec
CONSTANTS
    Chars = {"a", "b"}
    Texts <- MCTexts
    MaxInput = 2
    MaxText = 3
    MaxPrompts = 1
INVARIANTS
    FindsNearest
    SearchShowsMatch
PROPERTIES
    ReplaceAllReplaces
    ReplaceAllEnds
