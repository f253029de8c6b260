-------------------------------- MODULE View --------------------------------
(***************************************************************************)
(* What a buffer keeps so that drawing it stays cheap: the lexical states  *)
(* of LexCache, and the two checkpoints from which the columns of a long   *)
(* line are counted (src/src/buffer.c 181-223).  One function invalidates  *)
(* all three when the text changes.  With them, the way from a snapshot to *)
(* the screen and back: where editor_snapshot (view.c) puts the cursor,    *)
(* and which position a click there names (gui_x11.c, protocol.c).         *)
(*                                                                         *)
(* Positions count characters, the newline at the end of a line among them.*)
(***************************************************************************)
EXTENDS LexCache, FiniteSetsExt

CONSTANTS
    Char,          \* what lines are made of
    TAB,           \* the character that goes on to the next tab stop
    Width(_),      \* the columns of every other character
    TabWidths,     \* values of the option tab_width
    Far,           \* a checkpoint is set only farther into a line: 4096
    Gutter,        \* columns of the line numbers: 8
    MinPaneCols,   \* panes side by side are not shown narrower: 12
    MinPaneRows,   \* panes above each other are not shown lower: 3
    Screens,       \* rows and columns of the frontends
    MaxPanes       \* CP_MAX_PANES

ASSUME LineAssumption == Line \subseteq Seq(Char)
ASSUME WidthAssumption ==
    /\ \A c \in Char : Width(c) \in Nat
    /\ TabWidths \subseteq Nat \ {0}
    /\ Far \in Nat
\* (A window with its message has two lines of text, and so has a pane: a frontend
\* has at least 4 rows and 12 columns, view.c:48 and protocol.c:29.)
ASSUME ScreenAssumption ==
    /\ Screens \subseteq [rows : Nat \ (0 .. 2), cols : Nat \ {0}]
    /\ MinPaneRows \in Nat \ {0, 1} /\ {MinPaneCols, MaxPanes} \subseteq Nat \ {0}
    /\ Gutter \in Nat

VARIABLES
    tab_width,
    column_cache,  \* where editor_column counted last
    seek_cache     \* where editor_at_column_ex did

columns == <<tab_width, column_cache, seek_cache>>

\* An invalid checkpoint; what it holds is not looked at.
NoCache == [valid |-> FALSE, point |-> 0, column |-> 0, line_start |-> 0]

-----------------------------------------------------------------------------
(***************************************************************************)
(* Positions and columns.                                                  *)
(***************************************************************************)

LineStart(r) ==
    LET start[q \in 0 .. r] == IF q = 0 THEN 0 ELSE start[q - 1] + Len(LineAt(q - 1)) + 1
    IN  start[r]
LineEnd(r) == LineStart(r) + Len(LineAt(r))
Rows == 0 .. Len(lines) - 1
Positions == 0 .. LineEnd(Len(lines) - 1)
LineOf(p) == CHOOSE r \in Rows : LineStart(r) <= p /\ p <= LineEnd(r)

\* The column after a character that begins at column col.
After(col, c) == IF c = TAB THEN col + tab_width - (col % tab_width) ELSE col + Width(c)

\* scan_columns without a limit, from one position of a line to another
ScanColumns(r, at, end, col) ==
    LET start == LineStart(r)
        column[p \in at .. end] ==
            IF p = at THEN col ELSE After(column[p - 1], LineAt(r)[p - start])
    IN  column[end]

\* scan_columns with a limit: it stops before the character that passes it.
ScanTo(r, at, col, target) ==
    Max({at} \union {p \in at .. LineEnd(r) : ScanColumns(r, at, p, col) <= target})

\* Where counting begins: at the checkpoint, or at the beginning of the line.
From(cache, r, usable) ==
    IF cache.valid /\ cache.line_start = LineStart(r) /\ usable
    THEN cache
    ELSE [NoCache EXCEPT !.point = LineStart(r)]

\* The checkpoint after counting up to position p of line r.
Checkpoint(cache, r, p, col) ==
    IF p - LineStart(r) > Far
    THEN [valid |-> TRUE, point |-> p, column |-> col, line_start |-> LineStart(r)]
    ELSE cache

\* The value of editor_column.
Column(p) ==
    LET r == LineOf(p)
        from == From(column_cache, r, column_cache.point <= p)
    IN  ScanColumns(r, from.point, p, from.column)

\* The value of editor_at_column, and the column reached in editor_at_column_ex.
AtColumn(r, col) ==
    LET from == From(seek_cache, r, seek_cache.column <= col)
    IN  ScanTo(r, from.point, from.column, col)
ReachedColumn(r, col) ==
    LET from == From(seek_cache, r, seek_cache.column <= col)
    IN  ScanColumns(r, from.point, AtColumn(r, col), from.column)

\* Commands, clicks and snapshots ask for the column of a position ...
EditorColumn(p) ==
    /\ Idle
    /\ column_cache' = Checkpoint(column_cache, LineOf(p), p, Column(p))
    /\ UNCHANGED <<vars, tab_width, seek_cache>>

\* ... and for the position at a column.
EditorAtColumn(r, col) ==
    /\ Idle
    /\ seek_cache' = Checkpoint(seek_cache, r, AtColumn(r, col), ReachedColumn(r, col))
    /\ UNCHANGED <<vars, tab_width, column_cache>>

-----------------------------------------------------------------------------
(***************************************************************************)
(* What changes the text or the columns.                                   *)
(***************************************************************************)

\* Only checkpoints in lines that begin later go.
Kept_LaterLines(cache, at) == IF at < cache.line_start THEN NoCache ELSE cache

\* editor_lex_invalidate keeps a checkpoint that lies before the edit.
Kept(cache, at) == IF at < cache.point THEN NoCache ELSE cache

\* An edit or an entry undone or redone: it begins c characters into line r,
\* which the old and the new text have in common.
EditText(r, q, new, c) ==
    /\ r < Len(lines)
    /\ c <= Len(LineAt(r)) /\ c <= Len(new[1])
    /\ SubSeq(LineAt(r), 1, c) = SubSeq(new[1], 1, c)
    /\ Edit(r, q, new)
    /\ column_cache' = Kept(column_cache, LineStart(r) + c)
    /\ seek_cache' = Kept(seek_cache, LineStart(r) + c)
    /\ UNCHANGED tab_width

\* py_log
LogText(new) ==
    /\ Log(new)
    /\ column_cache' = NoCache
    /\ seek_cache' = NoCache
    /\ UNCHANGED tab_width

\* py_option
SetTabWidth(n) ==
    /\ Idle
    /\ tab_width' = n
    /\ column_cache' = NoCache
    /\ seek_cache' = NoCache
    /\ UNCHANGED vars

-----------------------------------------------------------------------------
(***************************************************************************)
(* The screen: editor_snapshot, and the click of a frontend.               *)
(***************************************************************************)

\* A window divided into n panes; the sizes a frontend asks for are clamped to
\* what ScreenAssumption allows.
Splits == [screen : Screens, n : 1 .. MaxPanes, vertical : BOOLEAN, numbers : BOOLEAN]

\* Panes too small to be of use leave the window to the active one.
PaneCount(s) ==
    IF \/ s.vertical /\ s.screen.cols \div s.n < MinPaneCols
       \/ ~s.vertical /\ (s.screen.rows - 1) \div s.n < MinPaneRows
    THEN 1
    ELSE s.n

\* The rectangle of the i-th pane shown, counted from 0.
Pane(s, i) ==
    LET n == PaneCount(s)
        Cut(size, k) == (k * size) \div n
        x == IF s.vertical THEN Cut(s.screen.cols, i) ELSE 0
        y == IF s.vertical THEN 0 ELSE Cut(s.screen.rows - 1, i)
        width == IF s.vertical THEN Cut(s.screen.cols, i + 1) - x ELSE s.screen.cols
    IN  [x      |-> x,
         y      |-> y,
         width  |-> width,
         height |-> IF s.vertical THEN s.screen.rows - 1
                                  ELSE Cut(s.screen.rows - 1, i + 1) - y,
         gutter |-> IF s.numbers /\ Gutter <= width \div 2 THEN Gutter ELSE 0]

\* The line or column after the last one shown counts as shown.
Scrolled_OneMore(first, at, size) ==
    IF at < first THEN at
    ELSE IF at > first + size THEN at - size + 1
    ELSE first

\* The first line or column shown, so that the one of point is.
Scrolled(first, at, size) ==
    IF at < first THEN at
    ELSE IF at >= first + size THEN at - size + 1
    ELSE first

\* The cell of the cursor, in the active pane that showed top and left before.
Cursor(pane, line, column, top, left) ==
    LET t == Scrolled(top, line, pane.height - 1)
        l == Scrolled(left, column, pane.width - pane.gutter)
    IN  [top |-> t, left |-> l,
         x |-> pane.x + pane.gutter + column - l,
         y |-> pane.y + line - t]

\* mouse_point: the cell is one of the text of the pane.
Hits(pane, x, y) ==
    /\ pane.x <= x /\ x < pane.x + pane.width
    /\ pane.y <= y /\ y < pane.y + pane.height - 1

\* The line and the column clicked on, in a pane that shows top and left.
ClickedRow(pane, y, top) == top + y - pane.y
ClickedColumn(pane, x, left) == left + Max({0, x - pane.x - pane.gutter})

-----------------------------------------------------------------------------
ViewInit ==
    /\ Init
    /\ tab_width \in TabWidths
    /\ column_cache = NoCache
    /\ seek_cache = NoCache

ViewNext ==
    \/ \E r, q \in 0 .. MaxLines - 1, new \in Texts :
           \E c \in 0 .. Len(new[1]) : EditText(r, q, new, c)
    \/ \E new \in Texts : LogText(new)
    \/ \E n \in TabWidths : SetTabWidth(n)
    \/ \E p \in Positions : EditorColumn(p)
    \/ \E r \in Rows : \E p \in LineStart(r) .. LineEnd(r) : EditorAtColumn(r, Column(p))
    \/ \E k \in Kind : SetMode(k) /\ UNCHANGED columns
    \/ \E r \in Rows : LineSpans(r) /\ UNCHANGED columns
    \/ (StateAt \/ Drawn) /\ UNCHANGED columns

ViewSpec == ViewInit /\ [][ViewNext]_<<vars, columns>>

-----------------------------------------------------------------------------
(***************************************************************************)
(* Properties.                                                             *)
(***************************************************************************)

\* The column of a position, counted from the beginning of its line.
FreshColumn(p) == ScanColumns(LineOf(p), LineStart(LineOf(p)), p, 0)

\* Whatever was edited, undone, logged and asked before, in any order, and
\* whatever the tab width is by now, the checkpoints do not change an answer:
\* columns and positions are those a count from the beginning of the line gives
\* (buffer.c 183: "Edits before a checkpoint invalidate it").
ColumnsAgree ==
    Idle => \A p \in Positions :
        /\ Column(p) = FreshColumn(p)
        /\ AtColumn(LineOf(p), FreshColumn(p)) = ScanTo(LineOf(p), LineStart(LineOf(p)), 0, FreshColumn(p))

\* A click on the cell in which the cursor is drawn hits the pane that shows it
\* and no other, and names the line and the column of point: however the window is
\* divided and numbered, and wherever it was scrolled to before.  That the column
\* then names the position, or one that only characters of no width separate from
\* it, and that it does not depend on checkpoints, is ColumnsAgree; so it is enough to look at this where there are none.
ClickOnCursor ==
    lex_valid = 0 /\ ~column_cache.valid /\ ~seek_cache.valid =>
        \A s \in Splits : \A i \in 0 .. PaneCount(s) - 1 :
            LET pane == Pane(s, i)
            IN  \A p \in Positions, top \in Rows, left \in {0, MinPaneCols} :
                    LET c == Cursor(pane, LineOf(p), Column(p), top, left)
                    IN  /\ \A j \in 0 .. PaneCount(s) - 1 : Hits(Pane(s, j), c.x, c.y) <=> j = i
                        /\ ClickedRow(pane, c.y, c.top) = LineOf(p)
                        /\ ClickedColumn(pane, c.x, c.left) = Column(p)
=============================================================================
