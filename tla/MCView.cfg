SPECIFICATION ViewSpec
CONSTANTS
    Line <- MCLine
    Kind = {0, 1, 2}
    State <- MCState
    NORMAL <- MCNormal
    Scan <- MCScan
    MaxLines = 3
    Char <- MCChar
    TAB <- MCTab
    Width <- MCWidth
    TabWidths = {2, 16}
    Far = 1
    Gutter = 8
    MinPaneCols = 12
    MinPaneRows = 3
    Screens <- MCScreens
    MaxPanes = 2
INVARIANTS
    CacheIsChained
    DrawnFresh
    ColumnsAgree
    ClickOnCursor
