------------------------------ MODULE KillRing ------------------------------
(***************************************************************************)
(* Killing and yanking (src/src/commands.c, push_kill, kill_range and the  *)
(* commands that use them): which kills join, what yank-pop replaces.  The *)
(* editor remembers in last_kind only what kind of command came last, and  *)
(* where the last yank put its text.                                       *)
(*                                                                         *)
(* Operations that are not commands (a click, the replace and point of the *)
(* protocol) leave last_kind as it is; the constant Others says whether    *)
(* they happen.  Characters are one byte wide; Motion says how far a       *)
(* command reaches.                                                        *)
(***************************************************************************)
EXTENDS Motion, SequencesExt

CONSTANTS
    Buffers,   \* the buffers
    Chars,     \* the characters of texts
    Texts,     \* the texts of buffers in the beginning
    MaxText,   \* bound on the length of a text and of an entry of the ring
    MaxRing,   \* the entries of the kill ring (CP_KILL_RING)
    Counts,    \* the numeric arguments given
    MaxSteps,  \* bound on the commands and what comes between them
    Others     \* whether anything but commands happens

ASSUME BoundAssumption == {MaxText, MaxSteps} \subseteq Nat /\ MaxRing \in Nat \ {0}
ASSUME CountAssumption == Counts \subseteq Int
ASSUME OthersAssumption == Others \in BOOLEAN
ASSUME CharAssumption == {Newline, Space} \subseteq Chars

Strings(n) == UNION {[1 .. k -> Chars] : k \in 0 .. n}

ASSUME TextAssumption == Texts \subseteq Strings(MaxText)

VARIABLES
    text, point, mark, readonly,     \* of each buffer; a mark is -1 while unset
    current,                         \* the current buffer
    kill_ring, last_kind,
    yank_index, yank_start, yank_end,
    steps,   \* how many steps were taken
    origin,  \* auxiliary: the buffer and its text before this run of kills
    base     \* auxiliary: the buffer and its text before the last yank, and where,
             \* until something that is no command comes in between

buffer == <<text, point, mark, readonly, current>>
yanks == <<yank_index, yank_start, yank_end, base>>
vars == <<buffer, kill_ring, last_kind, yanks, origin, steps>>

None == [buffer |-> "none"]

Replaced(t, at, count, s) == SubSeq(t, 1, at) \o s \o SubSeq(t, at + count + 1, Len(t))

\* relocate of editor_replace, for the mark
Relocated(p, at, removed, added) ==
    IF p <= at THEN p
    ELSE IF p <= at + removed THEN at + added
    ELSE p - removed + added

\* relocate of editor_replace, for the point: text put at point goes before it
PointAfter(p, at, removed, added) ==
    IF p < at THEN p ELSE IF p <= at + removed THEN at + added ELSE p - removed + added

\* editor_replace in the current buffer, with the point going to p
Replace(at, count, s, p) ==
    /\ Len(text[current]) - count + Len(s) <= MaxText
    /\ text' = [text EXCEPT ![current] = Replaced(@, at, count, s)]
    /\ mark' = [mark EXCEPT ![current] = Relocated(@, at, count, Len(s))]
    /\ point' = [point EXCEPT ![current] = p]
    /\ UNCHANGED <<readonly, current>>

\* A command that kills none ends a run of kills.
EndRun == origin' = None

-----------------------------------------------------------------------------
(***************************************************************************)
(* Killing.                                                                *)
(***************************************************************************)

\* A kill that joins the last one goes after it, whatever its direction.
Joined_After(s, backwards) == kill_ring[1] \o s

\* A kill that joins the last one.
Joined(s, backwards) == IF backwards THEN s \o kill_ring[1] ELSE kill_ring[1] \o s

\* A kill of its own; a full ring loses its oldest entry.
Entered(s) ==
    <<s>> \o (IF Len(kill_ring) = MaxRing THEN SubSeq(kill_ring, 1, MaxRing - 1) ELSE kill_ring)

PushKill(s, backwards, append) ==
    /\ append /\ kill_ring # <<>> => Len(kill_ring[1]) + Len(s) <= MaxText
    /\ kill_ring' = IF append /\ kill_ring # <<>> THEN <<Joined(s, backwards)>> \o Tail(kill_ring)
                                                  ELSE Entered(s)
    /\ yank_index' = 0

\* kill_range with a target z: what is between it and point is killed.  When
\* that is nothing, and when the buffer is read-only, the command kills
\* nothing, but a kill that follows it still joins the last entry.
Kill(z) ==
    LET p == point[current]
        at == IF z < p THEN z ELSE p
        s == SubSeq(text[current], at + 1, IF z < p THEN p ELSE z)
    IN  /\ last_kind' = 1
        /\ IF z = p \/ readonly[current]
           THEN /\ origin' = IF last_kind = 1 THEN origin ELSE None
                /\ UNCHANGED <<buffer, kill_ring, yanks>>
           ELSE /\ PushKill(s, z < p, last_kind = 1)
                /\ Replace(at, Len(s), <<>>, at)
                /\ origin' = IF last_kind = 1 THEN origin
                             ELSE [buffer |-> current, text |-> text[current]]
                /\ UNCHANGED <<yank_start, yank_end, base>>

KillLine(n, explicit) == Kill(KillLineTo(text[current], point[current], n, explicit))

\* kill-word, and backward-kill-word with the count negated
KillWord(n) == Kill(MoveWord(text[current], point[current], n))

\* delete-char with an argument
KillChar(n) == Kill(MoveChar(text[current], point[current], n))

\* kill-region
KillRegion == mark[current] >= 0 /\ Kill(mark[current])

\* copy-region-as-kill
CopyRegion ==
    LET p == point[current]
        m == mark[current]
    IN  /\ m >= 0
        /\ last_kind' = 0
        /\ IF m = p THEN UNCHANGED <<kill_ring, yank_index>>
           ELSE PushKill(SubSeq(text[current], (IF m < p THEN m ELSE p) + 1, IF m < p THEN p ELSE m),
                         p > m, FALSE)
        /\ EndRun
        /\ UNCHANGED <<buffer, yank_start, yank_end, base>>

-----------------------------------------------------------------------------
(***************************************************************************)
(* Yanking.                                                                *)
(***************************************************************************)

\* Puts a text where the point is, with the mark before it.
Insert(s, at, removed) ==
    /\ Len(text[current]) - removed + Len(s) <= MaxText
    /\ text' = [text EXCEPT ![current] = Replaced(@, at, removed, s)]
    /\ mark' = [mark EXCEPT ![current] = at]
    /\ point' = [point EXCEPT ![current] = at + Len(s)]
    /\ yank_end' = at + Len(s)
    /\ UNCHANGED <<readonly, current>>

\* The entry that yank takes, counted from 0.
Wanted(n, explicit) == IF explicit THEN (IF n > 0 THEN n - 1 ELSE 0) % Len(kill_ring) ELSE 0

\* yank; in a read-only buffer the mark is set and nothing is put there.
YankFrom(ring, index) ==
    /\ yank_index' = index
    /\ yank_start' = point[current]
    /\ EndRun
    /\ IF readonly[current]
       THEN /\ last_kind' = 0
            /\ mark' = [mark EXCEPT ![current] = point[current]]
            /\ UNCHANGED <<text, point, readonly, current, yank_end, base>>
       ELSE /\ last_kind' = 2
            /\ Insert(ring[index + 1], point[current], 0)
            /\ base' = [buffer |-> current, text |-> text[current], at |-> point[current]]

Yank(n, explicit) ==
    /\ kill_ring # <<>>
    /\ YankFrom(kill_ring, Wanted(n, explicit))
    /\ UNCHANGED kill_ring

\* editor_external_yank: what another program offers is killed and yanked.
ExternalYank(s) ==
    /\ kill_ring' = Entered(s)
    /\ YankFrom(Entered(s), 0)

\* The entry after the last one yanked; a count takes more, or goes back.
Rotated(n) == (yank_index + n) % Len(kill_ring)

\* yank-pop may come after any command.
MayPop_Always == TRUE

\* "Previous command was not a yank"
MayPop == last_kind = 2

\* yank-pop: replaces what is between the ends of the last yank.
YankPop(n) ==
    /\ kill_ring # <<>>
    /\ MayPop
    /\ yank_index' = Rotated(n)
    /\ EndRun
    /\ IF readonly[current] \/ yank_end > Len(text[current])
       THEN /\ last_kind' = 0
            /\ UNCHANGED <<buffer, yank_end>>
       ELSE /\ last_kind' = 2
            /\ Insert(kill_ring[Rotated(n) + 1], yank_start, yank_end - yank_start)
    /\ UNCHANGED <<kill_ring, yank_start, base>>

-----------------------------------------------------------------------------
(***************************************************************************)
(* Other commands, and what is no command.                                 *)
(***************************************************************************)

\* A command that neither kills nor yanks, and refused ones.
OtherCommand == last_kind' = 0 /\ EndRun /\ UNCHANGED <<kill_ring, yanks>>

SelfInsert(c) ==
    /\ ~readonly[current]
    /\ Replace(point[current], 0, <<c>>, point[current] + 1)
    /\ OtherCommand

MovePoint(p) ==
    /\ point' = [point EXCEPT ![current] = p]
    /\ UNCHANGED <<text, mark, readonly, current>>
    /\ OtherCommand

\* forward-char, forward-word, beginning-of-line, end-of-line, and backwards
Motion(n) ==
    LET t == text[current]
        p == point[current]
    IN  \/ MovePoint(MoveChar(t, p, n))
        \/ MovePoint(MoveWord(t, p, n))
        \/ MovePoint(LineBeginning(t, p, n))
        \/ MovePoint(LineEnd(t, p, n))

\* goto-line, goto-char; what is typed for them is 1 or more.
Goto(n) ==
    LET t == text[current]
        k == IF n > 0 THEN n - 1 ELSE 0
    IN  MovePoint(LineStart(t, k)) \/ MovePoint(Within(t, k))

\* beginning-of-buffer, end-of-buffer: the mark is left where point was.
BufferMotion(n, explicit) ==
    LET t == text[current]
    IN  /\ mark' = [mark EXCEPT ![current] = point[current]]
        /\ \E p \in {BufferBeginning(t, n, explicit), BufferEnd(t, n, explicit)} :
               point' = [point EXCEPT ![current] = p]
        /\ UNCHANGED <<text, readonly, current>>
        /\ OtherCommand

\* delete-char without an argument, and backwards with any: no kill.
DeleteChar(n) ==
    LET p == point[current]
        z == MoveChar(text[current], p, n)
    IN  /\ ~readonly[current]
        /\ Replace(IF z < p THEN z ELSE p, Abs(z - p), <<>>, IF z < p THEN z ELSE p)
        /\ OtherCommand

DeleteHorizontalSpace ==
    LET a == BlanksFrom(text[current], point[current])
        z == BlanksTo(text[current], point[current])
    IN  ~readonly[current] /\ Replace(a, z - a, <<>>, a) /\ OtherCommand

\* newline, newline-and-indent and open-line, which leaves point where it is;
\* a line that ends in a colon is indented as any other.
Newlines(n, indent, open) ==
    LET p == point[current]
        s == IF indent THEN Indented(text[current], p) ELSE <<Newline>>
        all == FlattenSeq([i \in 1 .. n |-> s])
    IN  /\ n >= 0 /\ ~readonly[current]
        /\ Replace(p, 0, all, IF open THEN p ELSE p + Len(all))
        /\ OtherCommand

\* transpose-chars: the character before point is carried over the next one,
\* or the one before it, |n| times or until there is none.  At the end of the
\* text point goes back by one first, also when nothing can be transposed.
TransposeChars(n) ==
    LET start == [t |-> text[current], m |-> mark[current],
                  p |-> IF point[current] = Len(text[current]) THEN Within(text[current], point[current] - 1)
                        ELSE point[current]]
        swapped(s) == [i \in DOMAIN s.t |-> IF i = s.p THEN s.t[i + 1]
                                           ELSE IF i = s.p + 1 THEN s.t[i - 1] ELSE s.t[i]]
        step(s) == IF s.p \in {0, Len(s.t)} THEN s
                   ELSE [t |-> swapped(s), m |-> Relocated(s.m, s.p - 1, 2, 2),
                         p |-> IF n > 0 THEN s.p + 1 ELSE s.p - 1]
        after[k \in 0 .. Abs(n)] == IF k = 0 THEN start ELSE step(after[k - 1])
        end == IF readonly[current] THEN start ELSE after[Abs(n)]
    IN  /\ n # 0
        /\ text' = [text EXCEPT ![current] = end.t]
        /\ mark' = [mark EXCEPT ![current] = end.m]
        /\ point' = [point EXCEPT ![current] = end.p]
        /\ UNCHANGED <<readonly, current>>
        /\ OtherCommand

SetMark ==
    /\ mark' = [mark EXCEPT ![current] = point[current]]
    /\ UNCHANGED <<text, point, readonly, current>>
    /\ OtherCommand

ToggleReadOnly ==
    /\ readonly' = [readonly EXCEPT ![current] = ~@]
    /\ UNCHANGED <<text, point, mark, current>>
    /\ OtherCommand

SwitchToBuffer(b) ==
    /\ current' = b
    /\ UNCHANGED <<text, point, mark, readonly>>
    /\ OtherCommand

\* A click into a pane: another buffer may become current.
Click(b, p) ==
    /\ Others
    /\ p \in 0 .. Len(text[b])
    /\ current' = b
    /\ point' = [point EXCEPT ![b] = p]
    /\ EndRun /\ base' = None
    /\ UNCHANGED <<text, mark, readonly, kill_ring, last_kind, yank_index, yank_start, yank_end>>

\* The replace operation of the protocol.
ClientReplace(at, count, s) ==
    /\ Others
    /\ ~readonly[current]
    /\ at + count <= Len(text[current])
    /\ Replace(at, count, s, PointAfter(point[current], at, count, Len(s)))
    /\ EndRun /\ base' = None
    /\ UNCHANGED <<kill_ring, last_kind, yank_index, yank_start, yank_end>>

-----------------------------------------------------------------------------
Init ==
    /\ text \in [Buffers -> Texts]
    /\ point = [b \in Buffers |-> 0]
    /\ mark = [b \in Buffers |-> -1]
    /\ readonly = [b \in Buffers |-> FALSE]
    /\ current \in Buffers
    /\ kill_ring = <<>> /\ last_kind = 0
    /\ yank_index = 0 /\ yank_start = 0 /\ yank_end = 0
    /\ origin = None /\ base = None
    /\ steps = 0

Step ==
    \/ \E n \in Counts, explicit \in BOOLEAN : KillLine(n, explicit)
    \/ \E n \in Counts : KillWord(n) \/ KillChar(n)
    \/ KillRegion
    \/ CopyRegion
    \/ \E n \in Counts, explicit \in BOOLEAN : Yank(n, explicit)
    \/ \E s \in Strings(1) : ExternalYank(s)
    \/ \E n \in Counts : YankPop(n)
    \/ \E c \in Chars : SelfInsert(c)
    \/ \E n \in Counts : Motion(n) \/ Goto(n)
    \/ \E n \in Counts, explicit \in BOOLEAN : BufferMotion(n, explicit)
    \/ \E n \in Counts : DeleteChar(n) \/ TransposeChars(n)
    \/ \E n \in Counts, indent, open \in BOOLEAN : Newlines(n, indent, open /\ ~indent)
    \/ DeleteHorizontalSpace
    \/ SetMark
    \/ ToggleReadOnly
    \/ \E b \in Buffers : SwitchToBuffer(b)
    \/ \E b \in Buffers, p \in 0 .. MaxText : Click(b, p)
    \/ \E at, count \in 0 .. MaxText, s \in Strings(1) : ClientReplace(at, count, s)

Next == steps < MaxSteps /\ steps' = steps + 1 /\ Step

Spec == Init /\ [][Next]_vars

-----------------------------------------------------------------------------
(***************************************************************************)
(* Properties.                                                             *)
(***************************************************************************)

\* Positions are within their texts, and the ring within its limit.
TypeOK ==
    /\ text \in [Buffers -> Strings(MaxText)]
    /\ \A b \in Buffers : point[b] \in 0 .. Len(text[b]) /\ mark[b] \in -1 .. Len(text[b])
    /\ readonly \in [Buffers -> BOOLEAN]
    /\ current \in Buffers
    /\ Len(kill_ring) <= MaxRing
    /\ last_kind \in 0 .. 2
    /\ yank_index \in 0 .. MaxRing /\ (kill_ring # <<>> => yank_index < Len(kill_ring))
    /\ yank_start \in Nat /\ yank_end \in Nat

\* Consecutive kills join in the order of the text (docs/commands.html: "append
\* or prepend according to direction"): whatever their directions, the entry
\* they make, put back where point is, restores the text there was before the
\* first of them.  (A run whose first kill finds nothing joins the entry before
\* it, and has no origin.)
KillsJoin ==
    /\ TypeOK
    /\ last_kind = 1 /\ origin # None
       => Replaced(text[current], point[current], 0, kill_ring[1]) = origin.text

\* Yank and yank-pop replace each other's text and nothing else: after any
\* number of them, and nothing in between, the text is what it was before the
\* yank, with one entry of the ring where point was.
PopReplacesYank ==
    last_kind = 2 /\ base # None
    => /\ base.buffer = current
       /\ text[current] = Replaced(base.text, base.at, 0, kill_ring[yank_index + 1])
=============================================================================
