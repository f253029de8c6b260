------------------------------ MODULE Terminal ------------------------------
(***************************************************************************)
(* The terminal frontend and the private backend it starts: bytes from the *)
(* terminal become keys and pastes (src/src/tui.c, read_event), each is    *)
(* sent as a request and answered (transport.c, main.c backend_stdio), and *)
(* what is drawn is written to the terminal row by row, changed rows only  *)
(* (draw_state).                                                           *)
(*                                                                         *)
(* Time is not counted.  A timeout may happen whenever nothing has arrived *)
(* to be read; when more bytes of the same key were still on their way, it *)
(* came too early, and what is read from then on is damaged.               *)
(*                                                                         *)
(* What the editor does is reduced to the list of the events it executed;  *)
(* a screen of n rows shows the last n of them, the newest on top.  The    *)
(* backend draws MinRows to MaxRows rows, whatever the height of the       *)
(* terminal: a lower one shows the rest on its last row, a higher one      *)
(* leaves the rest empty.                                                  *)
(***************************************************************************)
EXTENDS Integers, Sequences, SequencesExt

CONSTANTS
    Symbols,       \* bytes, and the names of keys
    Events,        \* the keys and pastes the user may enter
    QuitKeys,      \* keys after which the editor quits
    DetachKeys,    \* keys after which the frontend leaves it
    FrameSize(_),  \* the length of the request for an event
    MaxFrame,      \* CP_MAX_FRAME
    PasteLimit,    \* bytes of a paste with its end mark: CP_MAX_FRAME - 1024
    SeqLimit,      \* bytes of an escape sequence: 63
    Sizes,         \* the heights of the terminal
    MinRows,       \* the fewest rows that are drawn: 4
    MaxRows,       \* the most: 200
    None,          \* no frame, no response, nothing known
    MaxTyped,      \* bound: events entered
    MaxHappens     \* bound: events entered, resizes, signals, bytes lost or late

ASSUME TerminalAssumption ==
    /\ Sizes \subseteq Nat \ {0}
    /\ {MinRows, MaxRows} \subseteq Nat \ {0} /\ MinRows <= MaxRows
    /\ {MaxFrame, MaxTyped, MaxHappens} \subseteq Nat
    /\ PasteLimit \in Nat \ {0} /\ SeqLimit \in Nat \ {0, 1}

\* What is sent between the two processes.
Request == [op : {"key", "insert", "snapshot"}, data : Seq(Symbols)]
Frame == [event : Request, ended : BOOLEAN]
Response == [rows : {None} \cup Seq(Request), leave : BOOLEAN]

ASSUME NoneAssumption == None \notin Frame \cup Response \cup Seq(Request)

VARIABLES
    transit,    \* bytes on the line to the terminal
    input,      \* the byte that can be read next
    pc,         \* where the frontend is
    intro,      \* the byte after ESC
    held,       \* the bytes of the key or paste read so far
    request,    \* the event read
    pipe,       \* what the backend can read: [event, ended], or None
    response,   \* what the frontend can read: [rows, leave], or None
    closed,     \* the frontend has closed its end
    backend,    \* "read", "leaving", "gone"
    executed,   \* the events the editor executed
    quit, interrupted,      \* e->quit, and a signal to the backend
    stopping, hungup,       \* a signal to the frontend, and its line is gone
    size,       \* the height of the terminal
    asked,      \* the height last looked at
    old,        \* oldrows
    cache,      \* the rows drawn last
    screen,     \* the rows the terminal shows
    typed,      \* the events entered
    damaged,    \* bytes were lost or came too late
    intact,     \* the height has not changed since the screen was cleared
    happened    \* how many resizes, signals, and bytes lost or late there were

line == <<transit, input, typed, damaged>>
reading == <<intro, held, request>>
transport == <<pipe, response, closed, backend>>
editor == <<executed, quit, interrupted>>
signals == <<stopping, hungup>>
display == <<old, cache, screen, intact>>
vars == <<line, pc, reading, transport, editor, signals, display, size, asked, happened>>

ESC == "ESC"
LEAD == "LEAD"    \* the first byte of a character of two bytes
CONT == "CONT"    \* its second
Final == {"A", "~"}
EndMark == <<ESC, "[", "201", "~">>

\* The symbols that mean something to the frontend.
ASSUME SymbolAssumption ==
    {ESC, LEAD, CONT, "[", "O", "200", "201", "M-", "<up>", "<unknown>"} \cup Final \subseteq Symbols

Key(k) == [op |-> "key", data |-> k]
Insert(t) == [op |-> "insert", data |-> t]
Snapshot == [op |-> "snapshot", data |-> <<>>]

\* A key or text that is not UTF-8 is refused, with a response without a state.
IsText(s) ==
    \A i \in DOMAIN s :
        /\ s[i] = LEAD => i < Len(s) /\ s[i + 1] = CONT
        /\ s[i] = CONT => i > 1 /\ s[i - 1] = LEAD

\* A key: a byte, a character of two bytes, or a byte with Meta which does not
\* make it the beginning of an escape sequence.
IsKey(s) ==
    \/ Len(s) = 1 /\ s[1] \notin {LEAD, "M-"}
    \/ s = <<LEAD, CONT>>
    \/ Len(s) = 2 /\ s[1] = "M-" /\ s[2] \notin {"[", "O"}

\* Text in which no mark ends a paste before its end.
IsPasted(s) ==
    \A k \in 0 .. Len(s) + Len(EndMark) - 1 :
        ~IsSuffix(EndMark, SubSeq(s \o EndMark, 1, k))

\* What a user can enter.
ASSUME EventAssumption ==
    \A e \in Events :
        /\ e \in Request /\ IsText(e.data)
        /\ \/ e.op = "key" /\ IsKey(e.data)
           \/ e.op = "insert" /\ IsPasted(e.data)

-----------------------------------------------------------------------------
(***************************************************************************)
(* The user and the line to the terminal.                                  *)
(***************************************************************************)

\* The bytes a terminal sends for an event.
Bytes(e) ==
    IF e.op = "insert" THEN <<ESC, "[", "200", "~">> \o e.data \o EndMark
    ELSE IF e.data = <<"<up>">> THEN <<ESC, "[", "A">>
    ELSE IF e.data[1] = "M-" THEN <<ESC>> \o Tail(e.data)
    ELSE e.data

\* ESC has been entered on its own, and not been read as such yet.
EscPending ==
    \/ transit \o input = <<>> /\ pc = "esc"
    \/ input \o transit # <<>> /\ Last(input \o transit) = ESC

\* The bound on what happens from outside.
MayHappen == Len(typed) + happened < MaxHappens
Happens == MayHappen /\ happened' = happened + 1

\* Nobody types within 60 ms of ESC.
Type(e) ==
    /\ MayHappen /\ Len(typed) < MaxTyped
    /\ ~EscPending /\ ~hungup
    /\ typed' = Append(typed, e)
    /\ transit' = transit \o Bytes(e)
    /\ UNCHANGED <<input, damaged, pc, reading, transport, editor, signals, display, size, asked, happened>>

\* The frontend reads byte by byte: how many more wait behind the next one makes
\* no difference to it.
Arrive ==
    /\ input = <<>> /\ transit # <<>>
    /\ input' = <<Head(transit)>>
    /\ transit' = Tail(transit)
    /\ UNCHANGED <<typed, damaged, pc, reading, transport, editor, signals, display, size, asked, happened>>

\* A byte is lost on the line.
Lose ==
    /\ Happens /\ transit # <<>>
    /\ transit' = Tail(transit)
    /\ damaged' = TRUE
    /\ UNCHANGED <<input, typed, pc, reading, transport, editor, signals, display, size, asked>>

\* The terminal is made higher or lower; what it shows then is anything.
Resize(n) ==
    /\ Happens /\ n # size
    /\ size' = n
    /\ screen' = [r \in 1 .. n |-> None]
    /\ intact' = FALSE
    /\ UNCHANGED <<line, pc, reading, transport, editor, signals, old, cache, asked>>

Signal ==
    /\ Happens /\ ~stopping
    /\ stopping' = TRUE
    /\ UNCHANGED <<line, pc, reading, transport, editor, hungup, display, size, asked>>

\* The line is gone, which is a signal as well.
HangUp ==
    /\ Happens /\ ~hungup
    /\ hungup' = TRUE /\ stopping' = TRUE
    /\ damaged' = (damaged \/ transit # <<>>)
    /\ transit' = <<>>
    /\ UNCHANGED <<input, typed, pc, reading, transport, editor, display, size, asked>>

-----------------------------------------------------------------------------
(***************************************************************************)
(* read_event.                                                             *)
(***************************************************************************)

\* The loop of tui_run: a signal is noticed here, and the height is looked at.
LoopHead ==
    /\ pc = "head"
    /\ IF stopping THEN pc' = "close" /\ UNCHANGED asked
                   ELSE pc' = "poll" /\ asked' = size
    /\ UNCHANGED <<line, reading, transport, editor, signals, display, size, happened>>

PollHangUp ==
    /\ pc = "poll" /\ hungup
    /\ pc' = "close"
    /\ UNCHANGED <<line, reading, transport, editor, signals, display, size, asked, happened>>

\* get_byte: one byte c, with which the frontend goes on to pc = at.
Got(c, at) ==
    /\ input # <<>> /\ c = Head(input)
    /\ input' = Tail(input)
    /\ pc' = at
    /\ UNCHANGED <<transit, typed, damaged, transport, editor, signals, display, size, asked, happened>>

\* get_byte: the time is over.
TimedOut(e) ==
    /\ input = <<>>
    /\ request' = e /\ intro' = None /\ held' = <<>>
    /\ pc' = "write"
    /\ IF transit # <<>> /\ pc # "poll" THEN Happens /\ damaged' = TRUE
                                         ELSE UNCHANGED <<happened, damaged>>
    /\ UNCHANGED <<transit, input, typed, transport, editor, signals, display, size, asked>>

\* The byte ends the event read, or not.
Read(over, e) == request' = IF over THEN e ELSE Snapshot

FirstByte ==
    /\ pc = "poll" /\ ~hungup /\ input # <<>>
    /\ LET c == Head(input)
       IN  /\ Got(c, CASE c = ESC -> "esc" [] c = LEAD -> "utf8" [] OTHER -> "write")
           /\ Read(c \notin {ESC, LEAD}, Key(<<c>>))
           /\ held' = IF c = LEAD THEN <<c>> ELSE <<>>
           /\ UNCHANGED intro

\* After 200 ms without a key the screen is brought up to date.
Idle == pc = "poll" /\ TimedOut(Snapshot)

EscByte ==
    /\ pc = "esc" /\ input # <<>>
    /\ LET c == Head(input)
       IN  /\ Got(c, IF c \in {"[", "O"} THEN "seq" ELSE "write")
           /\ Read(c \notin {"[", "O"}, Key(<<"M-", c>>))
           /\ intro' = IF c \in {"[", "O"} THEN c ELSE None
           /\ UNCHANGED held

EscAlone == pc = "esc" /\ TimedOut(Key(<<ESC>>))

\* The key an escape sequence stands for.
Mapped(seq) == IF seq = <<"A">> THEN Key(<<"<up>">>) ELSE Key(<<"<unknown>">>)

PasteBegins(seq) == intro = "[" /\ seq = <<"200", "~">>

SeqByte ==
    /\ pc = "seq" /\ input # <<>>
    /\ LET c == Head(input)
           seq == Append(held, c)
           over == c \in Final \/ Len(seq) = SeqLimit
       IN  /\ Got(c, IF ~over THEN "seq" ELSE IF PasteBegins(seq) THEN "paste" ELSE "write")
           /\ held' = IF over THEN <<>> ELSE seq
           /\ Read(over /\ ~PasteBegins(seq), Mapped(seq))
           /\ intro' = IF over THEN None ELSE intro

SeqBroken == pc = "seq" /\ TimedOut(Mapped(held))

\* The end mark is taken for text when nothing stands before it.
PasteText_Empty(paste) ==
    IF Len(paste) > Len(EndMark) /\ IsSuffix(EndMark, paste)
    THEN SubSeq(paste, 1, Len(paste) - Len(EndMark))
    ELSE paste

\* The text of a paste, without the mark that ends it.
PasteText(paste) ==
    IF IsSuffix(EndMark, paste) THEN SubSeq(paste, 1, Len(paste) - Len(EndMark)) ELSE paste

PasteByte ==
    /\ pc = "paste" /\ input # <<>>
    /\ LET c == Head(input)
           paste == Append(held, c)
           over == PasteText(paste) # paste \/ Len(paste) = PasteLimit
       IN  /\ Got(c, IF over THEN "write" ELSE "paste")
           /\ held' = IF over THEN <<>> ELSE paste
           /\ Read(over, Insert(PasteText(paste)))
           /\ UNCHANGED intro

\* 2 s without a byte end a paste.
PasteBroken == pc = "paste" /\ TimedOut(Insert(held))

\* Whatever comes next is taken for the rest of the character.
Utf8Byte ==
    /\ pc = "utf8" /\ input # <<>>
    /\ LET c == Head(input)
       IN  /\ Got(c, "write")
           /\ Read(TRUE, Key(Append(held, c)))
           /\ held' = <<>>
           /\ UNCHANGED intro

Utf8Broken == pc = "utf8" /\ TimedOut(Key(held))

-----------------------------------------------------------------------------
(***************************************************************************)
(* The request, the backend and the response.                              *)
(***************************************************************************)

\* connection_request: the frame, if it is not too long for one ...
SendFrame ==
    /\ pc = "write"
    /\ IF FrameSize(request) > MaxFrame \/ backend = "gone"
       THEN pc' = "close" /\ UNCHANGED pipe
       ELSE pc' = "newline" /\ pipe' = [event |-> request, ended |-> FALSE]
    /\ request' = Snapshot
    /\ UNCHANGED <<line, intro, held, response, closed, backend, editor, signals, display, size, asked, happened>>

\* ... and the newline, in a write of its own.
SendNewline ==
    /\ pc = "newline"
    /\ IF backend = "gone"
       THEN pc' = "close" /\ UNCHANGED pipe
       ELSE pc' = "wait" /\ pipe' = [pipe EXCEPT !.ended = TRUE]
    /\ UNCHANGED <<line, reading, response, closed, backend, editor, signals, display, size, asked, happened>>

\* The rows drawn for a terminal of height n.
Clamp(n) == IF n < MinRows THEN MinRows ELSE IF n > MaxRows THEN MaxRows ELSE n

\* What n rows show after the events done.
Content(done, n) ==
    [r \in 1 .. n |-> IF r <= Len(done) THEN done[Len(done) - r + 1] ELSE Snapshot]

\* backend_stdio: one line is read, executed and answered.
Serve ==
    /\ backend = "read" /\ pipe # None /\ pipe.ended
    /\ LET e == pipe.event
           done == IF e = Snapshot \/ ~IsText(e.data) THEN executed ELSE Append(executed, e)
       IN  /\ executed' = done
           /\ quit' = (quit \/ e \in QuitKeys)
           /\ response' = [rows  |-> IF IsText(e.data) THEN Content(done, Clamp(asked)) ELSE None,
                           leave |-> quit' \/ e \in DetachKeys]
           /\ backend' = IF quit' \/ interrupted THEN "leaving" ELSE "read"
    /\ pipe' = None
    /\ UNCHANGED <<line, pc, reading, closed, interrupted, signals, display, size, asked, happened>>

\* protocol_read_line has MaxFrame bytes and no newline among them.
RefuseFrame ==
    /\ backend = "read" /\ pipe # None /\ ~pipe.ended
    /\ FrameSize(pipe.event) >= MaxFrame
    /\ backend' = "leaving"
    /\ UNCHANGED <<line, pc, reading, pipe, response, closed, editor, signals, display, size, asked, happened>>

\* The end of the input.
EndOfInput ==
    /\ backend = "read" /\ closed /\ (pipe # None => ~pipe.ended)
    /\ backend' = "leaving"
    /\ UNCHANGED <<line, pc, reading, pipe, response, closed, editor, signals, display, size, asked, happened>>

\* The backend is out of its loop, and ends.
BackendEnds ==
    /\ backend = "leaving"
    /\ backend' = "gone"
    /\ UNCHANGED <<line, pc, reading, pipe, response, closed, editor, signals, display, size, asked, happened>>

\* The handler sets a flag that the loop sees after the next response: a read
\* that is interrupted is repeated.
BackendSignal ==
    /\ Happens /\ ~interrupted /\ backend = "read"
    /\ interrupted' = TRUE
    /\ UNCHANGED <<line, pc, reading, transport, executed, quit, signals, display, size, asked>>

\* A screen with another number of rows is cleared, what was drawn on it is not
\* forgotten.
Unchanged_Stale(rows, r) == r \in DOMAIN cache /\ cache[r] = rows[r]

\* Row r is as it was drawn last.
Unchanged(rows, r) == old = Len(rows) /\ r \in DOMAIN cache /\ cache[r] = rows[r]

\* The row of the terminal on which row r is written: the terminal takes a row
\* below its last for the last.
Lands(r) == IF r > size THEN size ELSE r

\* draw_state: the rows that changed, from the top.
Draw(rows) ==
    LET cleared == old # Len(rows)
        written(at) == {r \in DOMAIN rows : Lands(r) = at /\ ~Unchanged(rows, r)}
    IN  /\ old' = Len(rows)
        /\ cache' = rows
        /\ screen' = [at \in 1 .. size |->
                        IF written(at) # {} THEN rows[Max(written(at))]
                        ELSE IF cleared THEN None
                        ELSE screen[at]]
        /\ intact' = IF cleared THEN size = asked ELSE intact

\* The response has come, or will not.
Answered ==
    /\ pc = "wait"
    /\ \/ /\ response # None
          /\ IF response.rows # None /\ Len(response.rows) \in MinRows .. MaxRows
             THEN Draw(response.rows)
             ELSE UNCHANGED display
          /\ pc' = IF response.rows # None /\ response.leave THEN "close" ELSE "head"
       \/ /\ response = None /\ backend = "gone"
          /\ pc' = "close"
          /\ UNCHANGED display
    /\ response' = None
    /\ UNCHANGED <<line, reading, pipe, closed, backend, editor, signals, size, happened, asked>>

\* connection_close waits for the backend before it closes the connection.
Close_AfterWait ==
    /\ pc = "close" /\ backend = "gone"
    /\ closed' = TRUE
    /\ pc' = "reap"
    /\ UNCHANGED <<line, reading, pipe, response, backend, editor, signals, display, size, asked, happened>>

\* connection_close: the end of the connection, then the wait for the child.
Close ==
    /\ pc = "close"
    /\ closed' = TRUE
    /\ pc' = "reap"
    /\ UNCHANGED <<line, reading, pipe, response, backend, editor, signals, display, size, asked, happened>>

Reap ==
    /\ pc = "reap" /\ backend = "gone"
    /\ pc' = "done"
    /\ UNCHANGED <<line, reading, transport, editor, signals, display, size, asked, happened>>

-----------------------------------------------------------------------------
Init ==
    /\ transit = <<>> /\ input = <<>> /\ typed = <<>> /\ damaged = FALSE
    /\ pc = "head" /\ intro = None /\ held = <<>> /\ request = Snapshot
    /\ pipe = None /\ response = None /\ closed = FALSE /\ backend = "read"
    /\ executed = <<>> /\ quit = FALSE /\ interrupted = FALSE
    /\ stopping = FALSE /\ hungup = FALSE
    /\ size \in Sizes /\ asked = size /\ old = 0
    /\ cache = <<>> /\ screen = [r \in 1 .. size |-> None]
    /\ intact = FALSE /\ happened = 0

ReadEvent ==
    \/ FirstByte \/ Idle \/ EscByte \/ EscAlone \/ SeqByte \/ SeqBroken
    \/ PasteByte \/ PasteBroken \/ Utf8Byte \/ Utf8Broken

Frontend ==
    \/ LoopHead \/ PollHangUp \/ ReadEvent
    \/ SendFrame \/ SendNewline \/ Answered \/ Close \/ Reap

Backend == Serve \/ RefuseFrame \/ EndOfInput \/ BackendEnds

Next ==
    \/ \E e \in Events : Type(e)
    \/ \E n \in Sizes : Resize(n)
    \/ Arrive \/ Lose \/ Signal \/ HangUp \/ BackendSignal
    \/ Frontend \/ Backend

\* Both processes are scheduled; bytes on the line arrive.
Fairness == WF_vars(Frontend) /\ WF_vars(Backend) /\ WF_vars(Arrive)

Spec == Init /\ [][Next]_vars /\ Fairness

-----------------------------------------------------------------------------
(***************************************************************************)
(* Properties.                                                             *)
(***************************************************************************)

TypeOK ==
    /\ transit \in Seq(Symbols) /\ input \in Seq(Symbols) /\ Len(input) <= 1
    /\ typed \in Seq(Events) /\ executed \in Seq(Request)
    /\ pc \in {"head", "poll", "esc", "seq", "paste", "utf8", "write", "newline", "wait",
               "close", "reap", "done"}
    /\ intro \in Symbols \cup {None} /\ held \in Seq(Symbols) /\ request \in Request
    /\ pc = "seq" => Len(held) < SeqLimit
    /\ pc = "paste" => Len(held) < PasteLimit
    /\ pipe \in Frame \cup {None} /\ response \in Response \cup {None}
    /\ backend \in {"read", "leaving", "gone"}
    /\ {closed, quit, interrupted, stopping, hungup, damaged, intact} \subseteq BOOLEAN
    /\ size \in Sizes /\ asked \in Sizes /\ old \in {0} \cup MinRows .. MaxRows
    /\ response # None /\ response.rows # None => Len(response.rows) = Clamp(asked)
    /\ cache \in Seq(Request) /\ Len(cache) = old
    /\ screen \in [1 .. size -> Request \cup {None}]
    /\ happened \in 0 .. MaxHappens

\* A paste that is not cut: with its end mark it is within the limit.
Whole(e) == e.op = "insert" => Len(e.data) + Len(EndMark) <= PasteLimit

\* The line lost and delayed nothing, and no paste was too long.
Faithful == ~damaged /\ \A i \in DOMAIN typed : Whole(typed[i])

\* The editor executes the keys and pastes that were entered, in their order and
\* none twice, whatever their bytes have in common and however they arrive; and
\* whenever the frontend is back at its loop with nothing left to read, all of them.
KeysAreTyped ==
    /\ TypeOK
    /\ Faithful => IsPrefix(executed, typed)
    /\ Faithful /\ pc = "head" /\ input = <<>> /\ transit = <<>> => executed = typed

\* A terminal shows rows, each on a row of its own, and nothing below them; a
\* terminal lower than them shows on its last row one of those it has no room for.
Shows(rows) ==
    \A at \in 1 .. size :
        IF at > Len(rows) THEN screen[at] = None
        ELSE IF at < size THEN screen[at] = rows[at]
        ELSE \E r \in at .. Len(rows) : screen[at] = rows[r]

\* Although only changed rows are written, the terminal shows what the editor holds
\* whenever the frontend is back at its loop, as far as it has the rows for it: after
\* any resizing that it noticed and that made it clear the screen, and after
\* responses that held nothing to draw.
ScreenIsTrue == pc = "head" /\ intact => Shows(Content(executed, Clamp(size)))

\* C-x C-c, the end of the terminal, and a signal to either process end both.
StopsBoth == (quit \/ stopping \/ interrupted) ~> (pc = "done" /\ backend = "gone")
=============================================================================
