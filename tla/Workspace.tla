----------------------------- MODULE Workspace -----------------------------
(***************************************************************************)
(* The buffers of the editor, the panes that show them, and the questions  *)
(* asked before a modified buffer is given up (src/src/buffer.c,           *)
(* commands.c, the click of protocol.c).                                   *)
(*                                                                         *)
(* A text is the sequence of its characters' widths in bytes, so that a    *)
(* position may fall inside a character; what the characters are plays no  *)
(* part.  A buffer is named by its id; two buffers may have one name.      *)
(***************************************************************************)
EXTENDS Integers, Sequences, FiniteSets, SequencesExt

CONSTANTS
    Names,       \* buffer names
    Scratch,     \* the name of the buffer made when none is left
    Files,       \* paths
    Base,        \* the name a path gives a buffer
    NoFile,      \* no path
    Widths,      \* the widths of characters
    MaxChars,    \* bound on the characters of a text
    MaxBuffers,  \* CP_MAX_BUFFERS
    MaxPanes,    \* CP_MAX_PANES
    MaxId        \* bound on the buffers ever made

ASSUME NameAssumption == Scratch \in Names /\ Base \in [Files -> Names]
ASSUME FileAssumption == NoFile \notin Files
ASSUME BoundAssumption == /\ Widths \subseteq Nat \ {0}
                          /\ MaxChars \in Nat /\ MaxId \in Nat \ {0}
                          /\ MaxBuffers \in Nat \ {0} /\ MaxPanes \in Nat \ {0}

VARIABLES
    buffers,         \* the buffers, in the order they were made
    current,         \* the index of the current one
    next_id,         \* the last id given
    panes,           \* what each pane shows, and its point when it was left
    active_pane,     \* the index of the active one
    prompt_command,  \* the question pending, "" when there is none
    pending_buffer,  \* the buffer kill-confirm is about
    quit             \* why the editor stops, "no" while it does not

vars == <<buffers, current, next_id, panes, active_pane, prompt_command,
          pending_buffer, quit>>

prompts == <<prompt_command, pending_buffer, quit>>

-----------------------------------------------------------------------------
(***************************************************************************)
(* Texts and points.                                                       *)
(***************************************************************************)

\* The bytes where the characters of a text begin, and where it ends.
Starts(t) == LET s[n \in 0 .. Len(t)] == IF n = 0 THEN 0 ELSE s[n - 1] + t[n] IN s

SizeOf(t) == Starts(t)[Len(t)]

\* The byte where character k begins, or where the text ends.
StartOf(t, k) == Starts(t)[k - 1]

Boundaries(t) == {StartOf(t, k) : k \in 1 .. Len(t) + 1}

\* relocate(point, at, removed, added, true) of editor_replace
Relocated(p, at, removed, added) ==
    IF p < at THEN p
    ELSE IF p <= at + removed THEN at + added
    ELSE p - removed + added

-----------------------------------------------------------------------------
(***************************************************************************)
(* The buffer list and the panes.                                          *)
(***************************************************************************)

Ids(bs) == {bs[i].id : i \in DOMAIN bs}

\* editor_by_id, as an index
IndexOf(bs, id) == CHOOSE i \in DOMAIN bs : bs[i].id = id

\* The first buffer of a name, and the last.
FirstNamed(name) == SelectInSeq(buffers, LAMBDA b : b.name = name)
LastNamed(name) == SelectLastInSeq(buffers, LAMBDA b : b.name = name)

Fresh(name, path, text, id) ==
    [id |-> id, name |-> name, path |-> path, text |-> text, point |-> 0,
     modified |-> FALSE]

Running == quit = "no"

\* editor_switch: the pane is told, its point is not touched.
Show(i, id) ==
    /\ current' = i
    /\ panes' = [panes EXCEPT ![active_pane].buffer = id]

Switch(i) == Show(i, buffers[i].id)

\* "Buffer limit reached" when there is none; the ids are bounded here only.
HasRoom == Len(buffers) < MaxBuffers /\ next_id < MaxId

\* editor_new_buffer and editor_switch to it.
NewBuffer(name, path, text) ==
    /\ HasRoom
    /\ next_id' = next_id + 1
    /\ buffers' = Append(buffers, Fresh(name, path, text, next_id + 1))
    /\ Show(Len(buffers) + 1, next_id + 1)

\* The panes are left alone but for the one of the current buffer.
PanesWithout_Active(id, fallback) ==
    [p \in DOMAIN panes |->
        IF p = active_pane /\ panes[p].buffer = id
        THEN [buffer |-> fallback.id, point |-> fallback.point] ELSE panes[p]]

\* The panes once those that showed the buffer show the fallback.
PanesWithout(id, fallback) ==
    [p \in DOMAIN panes |->
        IF panes[p].buffer = id
        THEN [buffer |-> fallback.id, point |-> fallback.point] ELSE panes[p]]

\* editor_drop_buffer: a sole buffer is replaced by a scratch buffer first.
DropBuffer(i) ==
    LET sole == Len(buffers) = 1
        all == IF sole THEN Append(buffers, Fresh(Scratch, NoFile, <<>>, next_id + 1))
                       ELSE buffers
        fallback == all[IF i = 1 THEN 2 ELSE 1]
        selected == IF current = i THEN fallback.id ELSE buffers[current].id
    IN  /\ sole => next_id < MaxId
        /\ next_id' = IF sole THEN next_id + 1 ELSE next_id
        /\ buffers' = RemoveAt(all, i)
        /\ current' = IndexOf(buffers', selected)
        /\ panes' = [PanesWithout(buffers[i].id, fallback)
                        EXCEPT ![active_pane].buffer = selected]

\* editor_open: a buffer of that path is switched to, the first one; otherwise
\* the file is read, whatever it holds.
OpenFile(f, text) ==
    /\ Running
    /\ LET i == SelectInSeq(buffers, LAMBDA b : b.path = f)
       IN  IF i > 0 THEN Switch(i) /\ UNCHANGED <<buffers, next_id>>
                    ELSE NewBuffer(Base[f], f, text)
    /\ UNCHANGED <<active_pane, prompts>>

\* switch-to-buffer
SwitchToBuffer(name) ==
    /\ Running
    /\ IF FirstNamed(name) > 0
       THEN Switch(FirstNamed(name)) /\ UNCHANGED <<buffers, next_id>>
       ELSE NewBuffer(name, NoFile, <<>>)
    /\ UNCHANGED <<active_pane, prompts>>

\* next-buffer, and previous-buffer with a negative count
NextBuffer(n) ==
    /\ Running
    /\ UNCHANGED <<buffers, next_id>>
    /\ Switch(((current - 1 + n) % Len(buffers)) + 1)
    /\ UNCHANGED <<active_pane, prompts>>

\* show_text: the last buffer of the name gets the text and counts as saved.
ShowText(name, text) ==
    /\ Running
    /\ LET i == LastNamed(name)
       IN  IF i > 0
           THEN /\ buffers' = [buffers EXCEPT ![i].text = text, ![i].point = 0,
                                              ![i].modified = FALSE]
                /\ Switch(i)
                /\ UNCHANGED next_id
           ELSE NewBuffer(name, NoFile, text)
    /\ UNCHANGED <<active_pane, prompts>>

\* py_log: a plug-in's log is written without being shown.
LogText(name, text) ==
    /\ Running
    /\ LET i == LastNamed(name)
       IN  IF i > 0
           THEN /\ buffers' = [buffers EXCEPT ![i].text = text, ![i].point = 0,
                                              ![i].modified = FALSE]
                /\ UNCHANGED next_id
           ELSE /\ HasRoom
                /\ next_id' = next_id + 1
                /\ buffers' = Append(buffers, Fresh(name, NoFile, text, next_id + 1))
    /\ UNCHANGED <<current, panes, active_pane, prompts>>

-----------------------------------------------------------------------------
(***************************************************************************)
(* Editing, moving and saving, as far as the workspace sees them.          *)
(***************************************************************************)

\* An edit replaces the characters from k up to l by the given ones.
Edit(k, l, chars) ==
    /\ Running
    /\ LET b == buffers[current]
           text == SubSeq(b.text, 1, k - 1) \o chars \o SubSeq(b.text, l, Len(b.text))
           at == StartOf(b.text, k)
       IN  /\ k \in 1 .. l /\ l <= Len(b.text) + 1
           /\ k < l \/ chars # <<>>
           /\ Len(text) <= MaxChars
           /\ buffers' = [buffers EXCEPT
                ![current].text = text,
                ![current].modified = TRUE,
                ![current].point = Relocated(@, at, StartOf(b.text, l) - at, SizeOf(chars))]
    /\ UNCHANGED <<current, next_id, panes, active_pane, prompts>>

\* A cursor command.
MovePoint(p) ==
    /\ Running
    /\ p \in Boundaries(buffers[current].text)
    /\ buffers' = [buffers EXCEPT ![current].point = p]
    /\ UNCHANGED <<current, next_id, panes, active_pane, prompts>>

\* write-file, and save-buffer when the path is the buffer's own: where it
\* succeeds the buffer takes the path and its name.
Save(f) ==
    /\ Running
    /\ buffers' = [buffers EXCEPT ![current].path = f, ![current].name = Base[f],
                                  ![current].modified = FALSE]
    /\ UNCHANGED <<current, next_id, panes, active_pane, prompts>>

-----------------------------------------------------------------------------
(***************************************************************************)
(* Panes.                                                                  *)
(***************************************************************************)

\* split-window-below, split-window-right
SplitWindow ==
    /\ Running
    /\ Len(panes) < MaxPanes
    /\ LET here == [buffer |-> panes[active_pane].buffer, point |-> buffers[current].point]
       IN  panes' = Append([panes EXCEPT ![active_pane] = here], here)
    /\ UNCHANGED <<buffers, current, next_id, active_pane, prompts>>

\* The point a pane was left with, or the end of what has become shorter.
PanePoint(p, text) == IF panes[p].point > SizeOf(text) THEN SizeOf(text) ELSE panes[p].point

\* The panes with the point of the one that is left.
PanesLeft == [panes EXCEPT ![active_pane].point = buffers[current].point]

\* other-window
OtherWindow(n) ==
    /\ Running
    /\ LET p == ((active_pane - 1 + n) % Len(panes)) + 1
           i == IndexOf(buffers, panes[p].buffer)
           left == IF p = active_pane THEN buffers[current].point ELSE PanePoint(p, buffers[i].text)
       IN  /\ active_pane' = p
           /\ current' = i
           /\ panes' = PanesLeft
           /\ buffers' = [buffers EXCEPT ![i].point = left]
    /\ UNCHANGED <<next_id, prompts>>

\* The click of a mouse: the pane is made active, the point is set to a
\* column of what it shows.
Click(p, at) ==
    /\ Running
    /\ p \in DOMAIN panes
    /\ LET i == IndexOf(buffers, panes[p].buffer)
       IN  /\ at \in Boundaries(buffers[i].text)
           /\ active_pane' = p
           /\ current' = i
           /\ panes' = PanesLeft
           /\ buffers' = [buffers EXCEPT ![i].point = at]
    /\ UNCHANGED <<next_id, prompts>>

DeleteOtherWindows ==
    /\ Running
    /\ panes' = <<panes[active_pane]>>
    /\ active_pane' = 1
    /\ UNCHANGED <<buffers, current, next_id, prompts>>

\* delete-window: the pane that takes its place is shown at its buffer's point.
DeleteWindow ==
    /\ Running
    /\ Len(panes) > 1
    /\ panes' = RemoveAt(panes, active_pane)
    /\ active_pane' = IF active_pane > Len(panes') THEN 1 ELSE active_pane
    /\ current' = IndexOf(buffers, panes'[active_pane'].buffer)
    /\ UNCHANGED <<buffers, next_id, prompts>>

-----------------------------------------------------------------------------
(***************************************************************************)
(* Giving up buffers, and the editor.  A command may come while a question *)
(* is pending: from another client, or a click.                            *)
(***************************************************************************)

\* kill-buffer, with its argument: the last buffer of that name.
KillBuffer(name) ==
    /\ Running
    /\ LastNamed(name) > 0
    /\ LET i == LastNamed(name)
       IN  IF buffers[i].modified
           THEN /\ prompt_command' = "kill-confirm"
                /\ pending_buffer' = buffers[i].id
                /\ UNCHANGED <<buffers, current, next_id, panes>>
           ELSE /\ DropBuffer(i)
                /\ UNCHANGED <<prompt_command, pending_buffer>>
    /\ UNCHANGED <<active_pane, quit>>

\* Confirming what is current when the answer comes.
Confirmed_Current == current

\* The buffer the question was about, if there still is one.
Confirmed == IF pending_buffer \in Ids(buffers) THEN IndexOf(buffers, pending_buffer) ELSE 0

\* y to kill-confirm
ConfirmKill ==
    /\ Running
    /\ prompt_command = "kill-confirm"
    /\ prompt_command' = ""
    /\ IF Confirmed > 0 THEN DropBuffer(Confirmed)
                        ELSE UNCHANGED <<buffers, current, next_id, panes>>
    /\ UNCHANGED <<active_pane, pending_buffer, quit>>

\* n, RET or C-g to a question
Cancel ==
    /\ Running
    /\ prompt_command # ""
    /\ prompt_command' = ""
    /\ UNCHANGED <<buffers, current, next_id, panes, active_pane, pending_buffer, quit>>

Modified == {i \in DOMAIN buffers : buffers[i].modified}

\* save-buffers-kill-terminal
SaveBuffersKillTerminal ==
    /\ Running
    /\ IF Modified # {} THEN prompt_command' = "quit-confirm" /\ UNCHANGED quit
                        ELSE quit' = "clean" /\ UNCHANGED prompt_command
    /\ UNCHANGED <<buffers, current, next_id, panes, active_pane, pending_buffer>>

\* y to quit-confirm
DiscardAndQuit ==
    /\ Running
    /\ prompt_command = "quit-confirm"
    /\ prompt_command' = ""
    /\ quit' = "discarded"
    /\ UNCHANGED <<buffers, current, next_id, panes, active_pane, pending_buffer>>

\* Buffers without a file are passed over.
ToSave_WithFile == {i \in Modified : buffers[i].path # NoFile}

\* The buffers s to quit-confirm saves.
ToSave == Modified

SavedBelow(n) == [i \in DOMAIN buffers |->
                    IF i \in ToSave /\ i < n THEN [buffers[i] EXCEPT !.modified = FALSE]
                                             ELSE buffers[i]]

\* s to quit-confirm: each is switched to and saved in turn, and all are.
SaveAllAndQuit ==
    /\ Running
    /\ prompt_command = "quit-confirm"
    /\ \A i \in ToSave : buffers[i].path # NoFile
    /\ buffers' = SavedBelow(Len(buffers) + 1)
    /\ prompt_command' = ""
    /\ quit' = "saved"
    /\ Switch(current)
    /\ UNCHANGED <<next_id, active_pane, pending_buffer>>

\* One of them cannot be saved: it stays current and the editor stays.
SaveAllFails(n) ==
    /\ Running
    /\ prompt_command = "quit-confirm"
    /\ n \in ToSave
    /\ \A i \in ToSave : i < n => buffers[i].path # NoFile
    /\ buffers' = SavedBelow(n)
    /\ prompt_command' = ""
    /\ Switch(n)
    /\ UNCHANGED <<next_id, active_pane, pending_buffer, quit>>

KillEmacs ==
    /\ Running
    /\ quit' = "killed"
    /\ UNCHANGED <<buffers, current, next_id, panes, active_pane, prompt_command,
                   pending_buffer>>

-----------------------------------------------------------------------------
Texts == UNION {[1 .. n -> Widths] : n \in 0 .. MaxChars}
Positions == 0 .. MaxChars * (CHOOSE w \in Widths : \A v \in Widths : v <= w)

\* editor_init
Init ==
    /\ buffers = <<Fresh(Scratch, NoFile, <<>>, 1)>>
    /\ current = 1
    /\ next_id = 1
    /\ panes = <<[buffer |-> 1, point |-> 0]>>
    /\ active_pane = 1
    /\ prompt_command = "" /\ pending_buffer = 0
    /\ quit = "no"

Next ==
    \/ \E f \in Files, t \in Texts : OpenFile(f, t)
    \/ \E n \in Names : SwitchToBuffer(n)
    \/ \E n \in {-1, 1} : NextBuffer(n)
    \/ \E n \in Names, t \in Texts : ShowText(n, t)
    \/ \E n \in Names, t \in Texts : LogText(n, t)
    \/ \E k, l \in 1 .. MaxChars + 1, s \in Texts : Edit(k, l, s)
    \/ \E p \in Positions : MovePoint(p)
    \/ \E f \in Files : Save(f)
    \/ SplitWindow
    \/ \E n \in {-1, 1} : OtherWindow(n)
    \/ \E p \in 1 .. MaxPanes, at \in Positions : Click(p, at)
    \/ DeleteOtherWindows
    \/ DeleteWindow
    \/ \E n \in Names : KillBuffer(n)
    \/ ConfirmKill
    \/ Cancel
    \/ SaveBuffersKillTerminal
    \/ DiscardAndQuit
    \/ SaveAllAndQuit
    \/ \E n \in 1 .. MaxBuffers : SaveAllFails(n)
    \/ KillEmacs

Spec == Init /\ [][Next]_vars

-----------------------------------------------------------------------------
(***************************************************************************)
(* Properties.                                                             *)
(***************************************************************************)

\* The lists are within their limits, the indices within the lists, and no id
\* is given twice.  A point is never beyond the end of its text, though panes
\* are left with points of texts that get shorter.
TypeOK ==
    /\ buffers \in Seq([id : 1 .. next_id, name : Names, path : Files \cup {NoFile},
                        text : Texts, point : Nat, modified : BOOLEAN])
    /\ Len(buffers) \in 1 .. MaxBuffers
    /\ Cardinality(Ids(buffers)) = Len(buffers)
    /\ \A i \in DOMAIN buffers : buffers[i].point <= SizeOf(buffers[i].text)
    /\ current \in DOMAIN buffers
    /\ next_id \in 1 .. MaxId
    /\ panes \in Seq([buffer : 1 .. next_id, point : Nat])
    /\ Len(panes) \in 1 .. MaxPanes
    /\ active_pane \in DOMAIN panes
    /\ prompt_command \in {"", "kill-confirm", "quit-confirm"}
    /\ pending_buffer \in 0 .. next_id
    /\ quit \in {"no", "clean", "saved", "discarded", "killed"}

\* Whatever was opened, killed, split or deleted, every pane shows a buffer
\* there is, and the active one shows the current buffer; no point is beyond the
\* end of its text, though panes are left with points of texts that get shorter.
PanesShowBuffers ==
    /\ TypeOK
    /\ \A p \in DOMAIN panes : panes[p].buffer \in Ids(buffers)
    /\ panes[active_pane].buffer = buffers[current].id

\* A buffer that is modified goes away only with the editor, or when kill-buffer
\* asked about it, that buffer and no other, and was told yes.
KilledOnlyWhenAsked ==
    [][ \A i \in DOMAIN buffers :
            buffers[i].modified /\ buffers[i].id \notin Ids(buffers')
            => prompt_command = "kill-confirm" /\ pending_buffer = buffers[i].id ]_vars

\* An editor that stops because all is saved leaves nothing unsaved
\* (docs/getting-started.html: modified buffers require confirmation).
QuitSavesAll == quit \in {"clean", "saved"} => Modified = {}
=============================================================================
