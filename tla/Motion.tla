------------------------------- MODULE Motion -------------------------------
(***************************************************************************)
(* How far commands reach in a text: by characters, words and lines        *)
(* (src/src/commands.c, move_char, move_word and eol).  Position p of text *)
(* t is before the character t[p + 1]; characters are one byte wide.       *)
(***************************************************************************)
EXTENDS Integers, Sequences, FiniteSets

CONSTANTS
    Newline,   \* the newline
    Space,     \* the space
    Blanks,    \* space and tab
    Letters    \* what words are made of: all that iswalnum accepts

Abs(n) == IF n < 0 THEN -n ELSE n

\* word_at
WordAt(t, p) == p < Len(t) /\ t[p + 1] \in Letters

BlankAt(t, p) == p < Len(t) /\ t[p + 1] \in Blanks

\* The first position from p on that is in a word, or is not, or the end.
Ahead(t, p, word) ==
    CHOOSE q \in p .. Len(t) :
        /\ q = Len(t) \/ WordAt(t, q) = word
        /\ \A r \in p .. q - 1 : WordAt(t, r) # word

\* The last position up to p that is behind a word, or is not, or the beginning.
Back(t, p, word) ==
    CHOOSE q \in 0 .. p :
        /\ q = 0 \/ WordAt(t, q - 1) = word
        /\ \A r \in q .. p - 1 : WordAt(t, r) # word

\* move_word
MoveWord(t, p, n) ==
    LET at[k \in 0 .. Abs(n)] ==
            IF k = 0 THEN p
            ELSE IF n > 0 THEN Ahead(t, Ahead(t, at[k - 1], TRUE), FALSE)
            ELSE Back(t, Back(t, at[k - 1], TRUE), FALSE)
    IN  at[Abs(n)]

\* A position beyond the text is its end, one before it its beginning.
Within(t, p) == IF p < 0 THEN 0 ELSE IF p > Len(t) THEN Len(t) ELSE p

\* move_char
MoveChar(t, p, n) == Within(t, p + n)

\* text_line_of
LineOf(t, p) == Cardinality({i \in 1 .. p : t[i] = Newline})

\* text_line_start; lines before the first are the first.
LineStart(t, line) ==
    IF line <= 0 THEN 0
    ELSE IF line > LineOf(t, Len(t)) THEN Len(t)
    ELSE CHOOSE p \in 1 .. Len(t) : t[p] = Newline /\ LineOf(t, p) = line

\* eol.  On an empty last line the newline it finds before the end of the text
\* is the one that ends the line before: it answers the end of that line.
Eol(t, p) ==
    LET start == LineStart(t, LineOf(t, p) + 1)
    IN  IF start > 0 /\ t[start] = Newline THEN start - 1 ELSE start

\* What newline-and-indent puts before point: the newline, and the spaces this
\* line begins with, as far as point.
Indented(t, p) ==
    LET start == LineStart(t, LineOf(t, p))
        n == CHOOSE n \in 0 .. p - start :
                 /\ n = p - start \/ t[start + n + 1] # Space
                 /\ \A i \in 1 .. n : t[start + i] = Space
    IN  <<Newline>> \o [i \in 1 .. n |-> Space]

\* beginning-of-line, end-of-line
LineBeginning(t, p, n) == LineStart(t, LineOf(t, p) + n - 1)
LineEnd(t, p, n) == Eol(t, LineBeginning(t, p, n))

\* beginning-of-buffer, end-of-buffer: an argument asks for tenths of the text.
Tenths(t, n) == (Len(t) * (IF n < 0 THEN 0 ELSE IF n > 10 THEN 10 ELSE n)) \div 10
BufferBeginning(t, n, explicit) == IF explicit THEN Tenths(t, n) ELSE 0
BufferEnd(t, n, explicit) == IF explicit THEN Len(t) - Tenths(t, n) ELSE Len(t)

\* kill-line: with an argument to the beginning of a line, without one to the
\* end of this, or behind it when there are only blanks in between.
KillLineTo(t, p, n, explicit) ==
    LET end == Eol(t, p)
        blank == \A r \in p .. end - 1 : BlankAt(t, r)
    IN  IF explicit THEN LineStart(t, LineOf(t, p) + n)
        ELSE IF blank /\ end < Len(t) THEN end + 1 ELSE end

\* delete-horizontal-space: the blanks around p.
BlanksFrom(t, p) ==
    CHOOSE q \in 0 .. p :
        /\ q = 0 \/ ~BlankAt(t, q - 1)
        /\ \A r \in q .. p - 1 : BlankAt(t, r)
BlanksTo(t, p) ==
    CHOOSE q \in p .. Len(t) :
        /\ ~BlankAt(t, q)
        /\ \A r \in p .. q - 1 : BlankAt(t, r)
=============================================================================
