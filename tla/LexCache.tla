------------------------------ MODULE LexCache ------------------------------
(***************************************************************************)
(* The cached lexical states of a buffer (src/src/syntax.c): lex_states[r] *)
(* is the state at the beginning of line r, and the first lex_valid of     *)
(* them are trusted.  An edit trusts fewer of them, drawing a line computes*)
(* more.                                                                   *)
(*                                                                         *)
(* The text is a sequence of lines, without their newlines.  What scan     *)
(* computes from one line is the constant Scan (module LexScan holds the   *)
(* code's).  state_at scans one line per iteration of its loop; each is a  *)
(* step here, with nothing else enabled until the line asked for is drawn. *)
(***************************************************************************)
EXTENDS Integers, Sequences

CONSTANTS
    Line,           \* what a line may hold
    Kind,           \* lexical policies: b->syntax.kind
    State,          \* lexical states
    NORMAL,         \* the state a text begins in
    Scan(_, _, _),  \* kind, line and state it begins in: the state it ends in
    MaxLines        \* bound on the number of lines

ASSUME KindAssumption == 0 \in Kind
ASSUME StateAssumption == NORMAL \in State
ASSUME ScanAssumption == \A k \in Kind, l \in Line, s \in State : Scan(k, l, s) \in State
ASSUME MaxLinesAssumption == MaxLines \in Nat \ {0}

VARIABLES
    lines,       \* of the text; at least one
    kind,
    lex_states,  \* 0 .. MaxLines: the first lex_valid are trusted, the rest left over
    lex_valid,
    row          \* the line being drawn, or -1: state_at's argument

vars == <<lines, kind, lex_states, lex_valid, row>>

Idle == row = -1

\* Line r, counted from 0.
LineAt(r) == lines[r + 1]

-----------------------------------------------------------------------------
(***************************************************************************)
(* Edits.                                                                  *)
(***************************************************************************)

\* The state after the first edited line is trusted as well.
Invalidated_OneMore(r) == IF lex_valid > r + 2 THEN r + 2 ELSE lex_valid

\* editor_lex_invalidate, for a position in line r
Invalidated(r) == IF lex_valid > r + 1 THEN r + 1 ELSE lex_valid

\* Lines r to q of a text become others.
Edited(t, r, q, new) == (SubSeq(t, 1, r) \o new) \o SubSeq(t, q + 2, Len(t))

\* editor_replace and each entry that undo or redo applies: what is from
\* somewhere in line r to somewhere in line q becomes other lines, at least one.
Edit(r, q, new) ==
    /\ Idle
    /\ r <= q /\ q < Len(lines)
    /\ r + Len(new) + (Len(lines) - q - 1) <= MaxLines
    /\ lex_valid' = Invalidated(r)
    /\ lines' = Edited(lines, r, q, new)
    /\ UNCHANGED <<kind, lex_states, row>>

\* py_log: the text of the log goes, and with it all states.
Log(new) ==
    /\ Idle
    /\ lines' = new
    /\ lex_valid' = 0
    /\ UNCHANGED <<kind, lex_states, row>>

\* The states of another syntax are trusted.
Restarted_Not(k) == lex_valid

\* No state is trusted after the syntax was set.
Restarted(k) == 0

\* py_mode: a mode with another syntax.
SetMode(k) ==
    /\ Idle
    /\ kind' = k
    /\ lex_valid' = Restarted(k)
    /\ UNCHANGED <<lines, lex_states, row>>

-----------------------------------------------------------------------------
(***************************************************************************)
(* Drawing a line: editor_line_spans and state_at.                         *)
(***************************************************************************)

\* The line is asked for.
LineSpans(r) ==
    /\ Idle
    /\ kind # 0
    /\ r < Len(lines)
    /\ row' = r
    /\ IF lex_valid = 0
       THEN lex_valid' = 1 /\ lex_states' = [lex_states EXCEPT ![0] = NORMAL]
       ELSE UNCHANGED <<lex_valid, lex_states>>
    /\ UNCHANGED <<lines, kind>>

\* The state in which the line before the first untrusted one ends.
Ends(r) == Scan(kind, LineAt(r), lex_states[r])

\* One iteration of state_at.
StateAt ==
    /\ ~Idle
    /\ lex_valid <= row
    /\ lex_states' = [lex_states EXCEPT ![lex_valid] = Ends(lex_valid - 1)]
    /\ lex_valid' = lex_valid + 1
    /\ UNCHANGED <<lines, kind, row>>

\* The state the line ends in is the next one needed.
IsNext == row + 1 < Len(lines) /\ row + 1 = lex_valid

\* The line is drawn.
Drawn ==
    /\ ~Idle
    /\ row < lex_valid
    /\ row' = -1
    /\ IF IsNext
       THEN /\ lex_states' = [lex_states EXCEPT ![row + 1] = Ends(row)]
            /\ lex_valid' = lex_valid + 1
       ELSE UNCHANGED <<lex_states, lex_valid>>
    /\ UNCHANGED <<lines, kind>>

-----------------------------------------------------------------------------
\* A text of one line or more.
Texts == UNION {[1 .. n -> Line] : n \in 1 .. MaxLines}

\* editor_new_buffer, and the text of the file it was made for
Init ==
    /\ lines \in Texts
    /\ kind = 0
    /\ lex_states = [r \in 0 .. MaxLines |-> NORMAL]
    /\ lex_valid = 0
    /\ row = -1

Next ==
    \/ \E r, q \in 0 .. MaxLines - 1, new \in Texts : Edit(r, q, new)
    \/ \E new \in Texts : Log(new)
    \/ \E k \in Kind : SetMode(k)
    \/ \E r \in 0 .. MaxLines - 1 : LineSpans(r)
    \/ StateAt
    \/ Drawn

Spec == Init /\ [][Next]_vars

-----------------------------------------------------------------------------
(***************************************************************************)
(* Properties.                                                             *)
(***************************************************************************)

\* There is a line, the trusted states are those of lines, and of one line
\* after an edit that shortened the text to where it began.
TypeOK ==
    /\ lines \in Texts
    /\ kind \in Kind
    /\ lex_states \in [0 .. MaxLines -> State]
    /\ lex_valid \in 0 .. Len(lines)
    /\ row \in -1 .. Len(lines) - 1
    /\ row # -1 => lex_valid > 0

\* The trusted states follow from each other: each is the one in which scan,
\* with the syntax of now and the line of now, leaves the line before it.
\* Edits of any line, mode changes and drawing in any order keep it so.
CacheIsChained ==
    /\ lex_valid > 0 => lex_states[0] = NORMAL
    /\ \A r \in 1 .. lex_valid - 1 : lex_states[r] = Ends(r - 1)

\* The state a line begins in, by a scan from the top of the text.
FromTop(r) ==
    LET begins[q \in 0 .. MaxLines] ==
            IF q = 0 THEN NORMAL ELSE Scan(kind, LineAt(q - 1), begins[q - 1])
    IN  begins[r]

\* A line is drawn with the state that a scan of the whole text from its top
\* gives it (syntax.c:7: "Each cached entry is the lexical state at the beginning
\* of a physical line").
DrawnFresh ==
    ~Idle /\ row < lex_valid => lex_states[row] = FromTop(row)
=============================================================================
