----------------------------- MODULE EditBuffer -----------------------------
(***************************************************************************)
(* One buffer of the editor and everything that edits it: editor_replace   *)
(* and editor_set_text (src/src/buffer.c), undo, the cursor and mark       *)
(* commands and show_text (src/src/commands.c), and the line of            *)
(* editor_save that declares the buffer clean.                             *)
(*                                                                         *)
(* The text is a sequence of bytes.  The only thing the code asks of a     *)
(* byte here is whether it starts a code point (text_boundary), so UTF-8   *)
(* is abstracted to one-byte characters and two-byte characters: a byte of *)
(* Lead is followed by exactly one byte of Cont.                           *)
(*                                                                         *)
(* The backend has one thread, so a command is one action, except undo:    *)
(* its loop undoes one history entry per iteration and each iteration is a *)
(* step here, with nothing else enabled until the loop ends.  has_mark and *)
(* mark_active only guard commands and select what is drawn: left out.     *)
(* Commands that put point back to a remembered position (other-window,    *)
(* isearch's C-g, query-replace, yank-pop) are not actions of this module, *)
(* nor is a text_changed hook that edits before its caller is done with a  *)
(* position it computed: they relate this buffer to state kept elsewhere.  *)
(***************************************************************************)
EXTENDS Integers, Sequences

CONSTANTS
    Byte,      \* the bytes a text is made of
    Lead,      \* those that open a two-byte character
    Cont,      \* those that continue one
    Inputs,    \* the byte strings clients send (protocol: replace, set_text)
    Original,  \* the text the buffer is opened with
    Positions, \* the positions clients move point to
    Counts,    \* the numeric arguments clients give to undo
    MaxSize,   \* bound on the size of the text
    MaxEdits,  \* bound on e->next_state
    MaxGroup   \* bound on e->group

VARIABLES
    text, point, mark, readonly,    \* Buffer
    history, history_pos,           \* Buffer: the undo log
    state, saved_state,             \* Buffer: version ids
    next_state, group,              \* Editor
    loop, loop_group, loop_left,   \* undo()'s locals redo, group and n
    versions, saved_text           \* auxiliary: see below

vars == <<text, point, mark, readonly, history, history_pos,
          state, saved_state, next_state, group, loop,
          loop_group, loop_left, versions, saved_text>>

(***************************************************************************)
(* Byte strings.                                                           *)
(***************************************************************************)

\* text_delete of count bytes at `at` followed by text_insert of s there.
Splice(t, at, count, s) ==
    [i \in 1 .. (Len(t) - count + Len(s)) |->
        IF i <= at THEN t[i]
        ELSE IF i <= at + Len(s) THEN s[i - at]
        ELSE t[i - Len(s) + count]]

\* text_slice: the n bytes of t that follow position at.
Slice(t, at, n) == [i \in 1 .. n |-> t[at + i]]

\* text_boundary: at is inside t and does not split a character.
Boundary(t, at) == at <= Len(t) /\ (at < Len(t) => t[at + 1] \notin Cont)

\* utf8_valid: every continuation byte follows a lead, every lead has one.
Valid(s) ==
    \A i \in 1 .. Len(s) :
        /\ s[i] \in Cont => i > 1 /\ s[i - 1] \in Lead
        /\ s[i] \in Lead => i < Len(s) /\ s[i + 1] \in Cont

ASSUME ByteAssumption ==
    /\ Lead \subseteq Byte
    /\ Cont \subseteq Byte
    /\ Lead \cap Cont = {}
ASSUME InputAssumption ==
    /\ Inputs \subseteq Seq(Byte)
    /\ Positions \subseteq Nat
    /\ Counts \subseteq Nat
    /\ Original \in Seq(Byte)
    /\ Valid(Original)
ASSUME BoundAssumption ==
    /\ MaxSize \in Nat
    /\ MaxEdits \in Nat
    /\ MaxGroup \in Nat

-----------------------------------------------------------------------------
(***************************************************************************)
(* Edits.                                                                  *)
(***************************************************************************)

\* relocate without the case of a position inside the removed bytes.
Relocate_NoClamp(p, at, removed, added, right) ==
    IF p < at \/ (p = at /\ ~right) THEN p
    ELSE p - removed + added

\* relocate leaving a position inside the removed bytes where it was.
Relocate_Inside(p, at, removed, added, right) ==
    IF p <= at + removed THEN p ELSE p - removed + added

\* relocate: where a position goes when `removed` bytes at `at` become
\* `added` bytes; `right` says which side of an insertion at it is on.
Relocate(p, at, removed, added, right) ==
    IF p < at \/ (p = at /\ ~right) THEN p
    ELSE IF p <= at + removed THEN at + added
    ELSE p - removed + added

\* The Edit records of src/include/editor.h.
Edit == [at : Nat, removed : Seq(Byte), added : Seq(Byte),
         before_point : Nat, after_point : Nat,
         before_mark : Nat, after_mark : Nat,
         group : Nat, before_state : Nat, after_state : Nat]

\* The conditions under which editor_replace answers "Invalid UTF-8 edit or
\* byte boundary".
BadEdit(at, count, s) ==
    \/ at > Len(text)
    \/ count > Len(text) - at
    \/ ~Boundary(text, at)
    \/ ~Boundary(text, at + count)
    \/ ~Valid(s)

\* An edit that keeps the entries that were undone.
Kept_RedoTail == history

\* What an edit keeps of the log: what was not undone.
Kept == Slice(history, 0, history_pos)

\* A version id that counts on from the current version.
NewState_Reused == state + 1

\* The version id of an edit: one that was never used, not even by an edit
\* since undone.
NewState == next_state + 1

\* The edit itself: its record joins the log with the cursor on both sides
\* of it, the text changes and takes a new version id.  Where the command
\* leaves point is the caller's business.
Record(at, count, s, g) ==
    /\ next_state < MaxEdits
    /\ Len(text) - count + Len(s) <= MaxSize
    /\ text' = Splice(text, at, count, s)
    /\ mark' = Relocate(mark, at, count, Len(s), FALSE)
    /\ next_state' = NewState
    /\ state' = next_state'
    /\ history' = Append(Kept,
                         [at |-> at,
                          removed |-> Slice(text, at, count), added |-> s,
                          before_point |-> point,
                          after_point |-> Relocate(point, at, count, Len(s), TRUE),
                          before_mark |-> mark, after_mark |-> mark',
                          group |-> g,
                          before_state |-> state, after_state |-> state'])
    /\ history_pos' = Len(history')
    /\ versions' = [i \in 0 .. next_state' |->
                        IF i = next_state' THEN text' ELSE versions[i]]

\* A request the code refuses, or finds nothing to do for, leaves the buffer.
NoEdit == UNCHANGED <<text, point, mark, history, history_pos, state,
                      next_state, versions>>

\* editor_replace, called by a command of group g.
Replace(at, count, s, g) ==
    IF readonly \/ BadEdit(at, count, s) \/ (count = 0 /\ s = <<>>)
    THEN NoEdit
    ELSE /\ Record(at, count, s, g)
         /\ point' = Relocate(point, at, count, Len(s), TRUE)

\* A command numbers itself (e->group++) before its first edit; later edits of
\* the same command, and those of its text_changed hooks, reuse the number.
\* Numbers are only compared for equality, so one that no edit takes is not
\* modelled.
Groups == {g \in {group, group + 1} : g <= MaxGroup}

Idle == loop = "idle"

\* A command, hook or client edits at any position with any string.  (One
\* that is refused changes nothing.)
EditBytes(at, count, s) ==
    /\ Idle
    /\ ~readonly /\ at + count <= Len(text)
    /\ \E g \in Groups :
         /\ Replace(at, count, s, g)
         /\ group' = IF state' = state THEN group ELSE g
    /\ UNCHANGED <<readonly, saved_state, saved_text, loop, loop_group,
                   loop_left>>

IsLargest(x, S) == x \in S /\ \A y \in S : y <= x

\* editor_set_text's head without the loop that backs it up to a character.
IsHead_NoBackUp(h, s) ==
    IsLargest(h, {k \in 0 .. Len(s) : k <= Len(text)
                     /\ \A i \in 1 .. k : text[i] = s[i]})

\* editor_set_text's head: the common prefix, backed up to the start of a
\* character of s.
IsHead(h, s) ==
    \E m \in 0 .. Len(s) :
        /\ IsLargest(m, {k \in 0 .. Len(s) : k <= Len(text)
                            /\ \A i \in 1 .. k : text[i] = s[i]})
        /\ IsLargest(h, {k \in 0 .. m : k = 0 \/ k = Len(s)
                            \/ s[k + 1] \notin Cont})

\* Its tail: the common suffix of what follows the head, shortened to the
\* start of a character of s.
IsTail(t, h, s) ==
    \E m \in 0 .. Len(s) :
        /\ IsLargest(m, {k \in 0 .. Len(s) : k <= Len(text) - h
                            /\ k <= Len(s) - h
                            /\ \A i \in 0 .. k - 1 :
                                 text[Len(text) - i] = s[Len(s) - i]})
        /\ IsLargest(t, {k \in 0 .. m : k = 0 \/ s[Len(s) - k + 1] \notin Cont})

\* editor_set_text: replace only what differs.
SetText(s, g) ==
    IF ~Valid(s) \/ s = text
    THEN NoEdit
    ELSE \E h, t \in 0 .. Len(s) :
            /\ IsHead(h, s)
            /\ IsTail(t, h, s)
            /\ Replace(h, Len(text) - h - t,
                       Slice(s, h, Len(s) - h - t), g)

\* The protocol's set_text request, or a plugin's editor.set_text.
ClientSetText(s) ==
    /\ Idle
    /\ \E g \in Groups : SetText(s, g) /\ group' = g
    /\ UNCHANGED <<readonly, saved_state, saved_text, loop, loop_group,
                   loop_left>>

\* show_text: the *Help* and *Buffer List* buffers are refilled whatever they
\* held, and count as saved.
ShowText(s) ==
    /\ Idle
    /\ Valid(s)
    /\ \E g \in Groups :
         /\ group' = g
         /\ IF s = text
            THEN UNCHANGED <<text, mark, history, history_pos, state,
                             next_state, versions>>
            ELSE \E h, t \in 0 .. Len(s) :
                    /\ IsHead(h, s)
                    /\ IsTail(t, h, s)
                    /\ Record(h, Len(text) - h - t,
                              Slice(s, h, Len(s) - h - t), g)
    /\ point' = 0
    /\ readonly' = TRUE
    /\ saved_state' = state'
    /\ saved_text' = text'
    /\ UNCHANGED <<loop, loop_group, loop_left>>

\* py_log, for diagnostic buffers: the text is replaced outside the undo log,
\* which is emptied, under a version id of its own that counts as saved.
LogText(s) ==
    /\ Idle
    /\ Valid(s)
    /\ next_state < MaxEdits
    /\ Len(s) <= MaxSize
    /\ text' = s
    /\ point' = 0 /\ mark' = 0 /\ readonly' = TRUE
    /\ history' = <<>> /\ history_pos' = 0
    /\ next_state' = NewState
    /\ state' = next_state' /\ saved_state' = next_state'
    /\ saved_text' = s
    /\ versions' = [i \in 0 .. next_state' |->
                        IF i = next_state' THEN s ELSE versions[i]]
    /\ UNCHANGED <<group, loop, loop_group, loop_left>>

-----------------------------------------------------------------------------
(***************************************************************************)
(* The cursor, the flags and the save.                                     *)
(***************************************************************************)

\* Everything a command that only moves the cursor leaves alone.
Contents == <<text, history, history_pos, state, saved_state, next_state, group,
              versions, saved_text, loop, loop_group, loop_left>>

CursorCommand == Idle /\ UNCHANGED Contents

\* The motion commands and the "point" request: they land on a character.
MovePoint(p) ==
    /\ CursorCommand
    /\ Boundary(text, p)
    /\ point' = p
    /\ UNCHANGED <<mark, readonly>>

\* set-mark-command, beginning-of-buffer and end-of-buffer.
SetMark == CursorCommand /\ mark' = point /\ UNCHANGED <<point, readonly>>

ExchangePointAndMark ==
    /\ CursorCommand
    /\ point' = mark
    /\ mark' = point
    /\ UNCHANGED readonly

MarkWholeBuffer ==
    /\ CursorCommand
    /\ mark' = Len(text)
    /\ point' = 0
    /\ UNCHANGED readonly

ToggleReadOnly ==
    /\ CursorCommand
    /\ readonly' = ~readonly
    /\ UNCHANGED <<point, mark>>

\* editor_save once the file is written: what was written is the text, and
\* the version on disk is the current one.
Saved ==
    /\ Idle
    /\ saved_state' = state
    /\ saved_text' = text
    /\ UNCHANGED <<text, point, mark, readonly, history, history_pos, state,
                   next_state, group, versions, loop, loop_group, loop_left>>

-----------------------------------------------------------------------------
(***************************************************************************)
(* Undo and redo.  The command takes a count of groups; each group is all  *)
(* the consecutive entries one command made.                               *)
(***************************************************************************)

AtEnd == IF loop = "undo" THEN history_pos = 0
                          ELSE history_pos = Len(history)

\* The entry the loop looks at.
NextEntry == IF loop = "undo" THEN history[history_pos]
                              ELSE history[history_pos + 1]

LoopUnchanged == UNCHANGED <<readonly, saved_state, saved_text, next_state,
                             group, versions, history>>

\* undo(e, redo, n) begins; a negative count has swapped the direction.
BeginUndo(dir, n) ==
    /\ Idle
    /\ ~readonly
    /\ loop' = dir
    /\ loop_left' = n
    /\ loop_group' = -1
    /\ UNCHANGED <<text, point, mark, history_pos, state>>
    /\ LoopUnchanged

\* The while condition: one more group, of the entry that comes next.
NextGroup ==
    /\ ~Idle
    /\ ~AtEnd
    /\ NextEntry.group # loop_group
    /\ loop_left > 0
    /\ loop_group' = NextEntry.group
    /\ loop_left' = loop_left - 1
    /\ UNCHANGED <<text, point, mark, history_pos, state, loop>>
    /\ LoopUnchanged

\* The do condition: the next entry belongs to the group being undone.
InGroup == ~AtEnd /\ NextEntry.group = loop_group

\* The version id an entry gives back.
Restored(d) == IF loop = "undo" THEN d.before_state ELSE d.after_state

\* The body of the do loop: the entry is reverted, or applied again.
UndoEntry ==
    /\ ~Idle
    /\ InGroup
    /\ LET d == NextEntry
       IN  IF loop = "undo"
           THEN /\ text' = Splice(text, d.at, Len(d.added), d.removed)
                /\ point' = d.before_point
                /\ mark' = d.before_mark
                /\ history_pos' = history_pos - 1
           ELSE /\ text' = Splice(text, d.at, Len(d.removed), d.added)
                /\ point' = d.after_point
                /\ mark' = d.after_mark
                /\ history_pos' = history_pos + 1
    /\ state' = Restored(NextEntry)
    /\ UNCHANGED <<loop, loop_group, loop_left>>
    /\ LoopUnchanged

\* Leaving as soon as the count is used up, in the middle of a group.
LoopDone_OnCount == loop_left = 0 \/ AtEnd

\* The group is done and the count is used up, or nothing is left.
LoopDone == ~InGroup /\ (loop_left = 0 \/ AtEnd)

\* The command ends: done, or "No further undo information".
EndUndo ==
    /\ ~Idle
    /\ LoopDone
    /\ loop' = "idle"
    /\ loop_group' = -1
    /\ loop_left' = 0
    /\ UNCHANGED <<text, point, mark, history_pos, state>>
    /\ LoopUnchanged

-----------------------------------------------------------------------------
Init ==
    /\ text = Original
    /\ point = 0 /\ mark = 0 /\ readonly \in BOOLEAN
    /\ history = <<>> /\ history_pos = 0
    /\ state = 0 /\ saved_state = 0 /\ next_state = 0 /\ group = 0
    /\ loop = "idle" /\ loop_group = -1 /\ loop_left = 0
    /\ versions = [i \in 0 .. 0 |-> Original]
    /\ saved_text = Original

Next ==
    \/ \E at, count \in 0 .. MaxSize, s \in Inputs : EditBytes(at, count, s)
    \/ \E s \in Inputs : ClientSetText(s)
    \/ \E s \in Inputs : ShowText(s)
    \/ \E s \in Inputs : LogText(s)
    \/ \E p \in Positions : MovePoint(p)
    \/ SetMark
    \/ ExchangePointAndMark
    \/ MarkWholeBuffer
    \/ ToggleReadOnly
    \/ Saved
    \/ \E dir \in {"undo", "redo"}, n \in Counts : BeginUndo(dir, n)
    \/ NextGroup
    \/ UndoEntry
    \/ EndUndo

Spec == Init /\ [][Next]_vars

-----------------------------------------------------------------------------
(***************************************************************************)
(* Properties.  versions and saved_text are auxiliary: versions[i] is the  *)
(* text version id i was given to, saved_text what the last save wrote.    *)
(***************************************************************************)

TypeOK ==
    /\ text \in Seq(Byte)
    /\ point \in Nat /\ mark \in Nat
    /\ readonly \in BOOLEAN
    /\ history \in Seq(Edit)
    /\ history_pos \in 0 .. Len(history)
    /\ next_state \in Nat
    /\ state \in 0 .. next_state /\ saved_state \in 0 .. next_state
    /\ group \in Nat
    /\ loop \in {"idle", "undo", "redo"}
    /\ loop_group \in Nat \cup {-1} /\ loop_left \in Nat
    /\ versions \in [0 .. next_state -> Seq(Byte)]
    /\ saved_text \in Seq(Byte)

\* The modeline, the quit prompt and the kill prompt call a buffer unmodified
\* when state = saved_state.  They are right: then the text is byte for byte
\* what was last saved, through any mixture of edits, undo, redo and branches.
CleanMeansSaved == state = saved_state => text = saved_text

\* A version id names one text for ever: undo and redo give a text its old id
\* back and no edit ever reuses one.
StateNamesText == text = versions[state]

\* The undo log is a path of versions: each record turns the text of its
\* before_state into the text of its after_state and carries exactly the
\* bytes needed to turn it back, and the current version sits at history_pos.
LogIsAPath ==
    /\ \A i \in 1 .. Len(history) :
         LET d == history[i]  old == versions[d.before_state]
         IN  /\ d.at + Len(d.removed) <= Len(old)
             /\ d.removed = Slice(old, d.at, Len(d.removed))
             /\ versions[d.after_state] = Splice(old, d.at, Len(d.removed), d.added)
    /\ \A i \in 1 .. Len(history) - 1 :
         history[i].after_state = history[i + 1].before_state
    /\ history_pos > 0 => history[history_pos].after_state = state
    /\ history_pos < Len(history) => history[history_pos + 1].before_state = state

\* Point and mark stay inside the text and never split a character, through
\* edits before, across and after them and through undo of any of those; no
\* accepted edit, undo or redo leaves the text invalid UTF-8.
CursorOnBoundary == Valid(text) /\ Boundary(text, point) /\ Boundary(text, mark)

\* Undo and redo stop only between commands: the log is never left in the
\* middle of the entries that one command made.
UndoIsPerCommand ==
    (Idle /\ history_pos \in 1 .. Len(history) - 1) =>
        history[history_pos].group # history[history_pos + 1].group

\* set_text of a valid string would take, whatever the text has become: the
\* part it finds to differ is cut at characters, and with it replaced the text
\* is that string.
SetTextTakes ==
    \A s \in Inputs : Valid(s) =>
        \A h \in 0 .. Len(s) : IsHead(h, s) =>
            \A t \in 0 .. Len(s) : IsTail(t, h, s) =>
                LET count == Len(text) - h - t
                    new == Slice(s, h, Len(s) - h - t)
                IN  ~BadEdit(h, count, new) /\ Splice(text, h, count, new) = s

=============================================================================
