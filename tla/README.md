# TLA+ models of cpymacs

cpymacs is a small Emacs-like editor: one C process (the *backend*) holds all
editing state and speaks newline-delimited JSON to terminal and X11 frontends,
over a pipe or a Unix socket.  Plugins are Python, run inside the backend.  The
backend is single-threaded; what makes it hard is not parallel threads but the
order of calls: commands that call hooks that edit, several clients interleaved
by one poll loop, files that other programs write, crashes in the middle of a
save, and state left between keys.

This directory holds models of its parts, TLC configurations that check them on
small instances, and TLAPS proofs of what holds for every instance.

## The system and its parts

| Part | Code | State | Operations | Hard behaviour | What makes it correct |
|---|---|---|---|---|---|
| Edit buffer, undo log | `buffer.c` 61-98, `commands.c` 121-145, `python.c` 103-113 | text, point, mark, log of edits, position in it, version id, saved id | replace, set_text, undo/redo, cursor commands, help and log texts | undo after edits after undo; multi-byte characters; saved ids | undo restores exactly the earlier text; unmodified means saved; point on a character |
| Open and save | `buffer.c` 113-180 | file on disk, temporary file, what the buffer knows of the file | open, save (a dozen system calls) | other programs, crash, power loss, failing calls, hooks | the name always shows a whole version; no silent overwrite |
| Socket server | `main.c` 98-147, `protocol.c` 24-29, 78-81 | slots with input and output buffers, quit and detach flags | accept, read, execute, queue, write, close | pipelining, partial reads and writes, slot reuse, quit | each request once and in order; each response whole |
| Key input | `commands.c` 334-342, 353-359, 450-490 | pending argument, key sequence, macro | a key | state left by failing keys, macros that play macro keys | a command gets the argument typed for it; macros are what was typed |
| Buffers, panes | `buffer.c` 14-60, `commands.c` 295-332 | buffer list, panes, active pane | open, switch, kill, split, other window | ids of dead buffers, duplicate names, stale pane points | every pane shows a live buffer |
| Kill ring | `commands.c` 96-120, 214-240 | ring, last command kind, span of the last yank | kill, copy, yank, yank-pop | what interrupts a sequence of kills or yanks | joining only consecutive kills; pop replaces the yank |
| Minibuffer, search, query-replace, confirmations | `commands.c` 361-448 | prompt, its input, where search and replace stand | a key in a prompt | the buffer changes under the prompt | an answer acts on what was asked |
| Syntax states | `syntax.c` | cached state per line, valid prefix | edit, scan | which lines an edit invalidates | the cache equals a fresh scan |
| Text storage | `text.c` | a treap of pieces with sums | insert, delete, slice, lines, search | balance, sums, splitting | a sequence of bytes |
| Plugin host | `python.c`, `cpymacs.py`, `commands.c` 353-359 | hooks, commands, nesting flag, command depth | events, commands | callbacks that call commands and save, raise, register hooks, as deep as they please | no hook inside a hook; no save past a hook; one undo group per command |
| Standard-input backend, transport | `main.c` 88-97, `transport.c` | one connection, a child process | request, response, close and wait | end of file, signals, frames too long | a response per request; both processes end together |
| Terminal frontend | `tui.c`, `term_style.c` | bytes read so far, rows drawn last | decode keys and pastes, send, draw | partial escape sequences, timeouts, resizes | every key once and in order; the screen is what the editor holds |
| Snapshots, columns | `view.c`, `buffer.c` 181-223 | scroll positions, column checkpoints | place panes, scroll, place the cursor, find a column | checkpoints that outlive edits, wide characters, rounding | columns as a full count gives them; a click names what is drawn there |
| X11 frontend | `gui_x11.c` | window, selections | keys, clicks, selections | large selections in pieces, late owners | a click names what is drawn there |
| Formatter, modes, configuration | `python/cpymacs_plugins` | buffer text | format, declare | the external tool fails | the text survives a failure |

They interact by calls: a frontend sends a key; the server or the pipe loop
hands it to `editor_request`; key input turns keys into commands; commands end in
`editor_replace` on the current buffer, in open or save, or in a change of panes;
`editor_replace` records in the log, invalidates the syntax cache and calls the
`text_changed` hooks, which may edit again.

The hazards, each at its line and with the properties that cover it, are listed
in `PROJECT.json`.


## The modules

| Module | Models | Instance | Run |
|---|---|---|---|
| `EditBuffer` | one buffer and its edit log: `editor_replace`, `editor_set_text`, undo and redo entry by entry, cursor commands, help and log texts, save points | `MCEditBuffer` | `edit_buffer` |
| `EditBufferProofs` | theorems about `EditBuffer` | | |
| `AtomicFile` | what saving promises about one file: whole versions, changed in one step | | |
| `SaveFile` | `editor_open` and `editor_save` system call by system call, with other programs, failures and loss of power | `MCSaveFile` (refines `AtomicFile`, once for each path) | `save_file` |
| `Server` | the poll loop of `backend_server`: slots, partial reads and writes, pipelining, detach, quit, signals | `MCServer` | `server` |
| `ServerProofs` | theorems about `Server` | | |
| `KeyInput` | `editor_key` outside the minibuffer: arguments, sequences, keyboard macros | `MCKeyInput` | `key_input` |
| `Workspace` | buffers, panes, opening, killing, quitting, confirmations, clicks | `MCWorkspace` | `workspace` |
| `WorkspaceProofs` | theorems about `Workspace` | | |
| `Motion` | how far commands reach: characters, words, lines, blanks | through `MCKillRing` | `kill_ring` |
| `KillRing` | kills, copies, yank, yank-pop, and the motions and edits that come between them | `MCKillRing` | `kill_ring` |
| `CommandProofs` | theorems about `KeyInput` and `KillRing` | | |
| `Minibuffer` | incremental search, query-replace, replace-string, `editor_find` | `MCMinibuffer` | `minibuffer`, `search_quit` |
| `MinibufferProofs` | theorems about `Minibuffer` | | |
| `LexScan` | the lexer of `syntax.c`: the state a line leaves for the next | through `MCView` | `view` |
| `LexCache` | the cached states and the edits that invalidate them | through `MCView` (with the scan of `LexScan`) | `view` |
| `ViewProofs` | theorems about `View` and `LexCache` | | |
| `View` | extends `LexCache`: columns and their two checkpoints, tab widths, the layout of panes, scrolling, the cell of the cursor and of a click | `MCView` | `view` |
| `PluginHost` | requests, commands, events, hooks and callbacks that call each other: a stack of calls | `MCPluginHost` | `plugin_host` |
| `SaveAndPluginProofs` | theorems about `SaveFile`, at the paths of `MCSaveFile` and at every path, and about `PluginHost` | | |
| `Terminal` | the terminal frontend byte by byte, the private backend it starts, the connection between them, the rows it redraws | `MCTerminal` | `terminal` |
| `TerminalProofs` | theorems about `Terminal` | | |
| `PieceTable` | the text storage of `text.c`: a treap of pieces with sums, insertion, deletion, and every question asked of it | `MCPieceTable` | `text_tree` |

Variables and actions bear the names of the C fields and functions; where an
action stands for part of a function (a key of `prompt_key`, a command of
`dispatch`), it bears the name of the command.  `PROJECT.json` maps every
definition to its lines.

**How the text is represented.**  `EditBuffer` works on bytes: a character is
one byte or a lead byte followed by a continuation byte, so that edits can split
characters.  `Workspace` keeps only the widths of characters, `LexScan` the
characters that matter to the lexer, `KillRing` and `Minibuffer` one-byte
characters; `View` keeps how wide a character is drawn; `PieceTable` and `Terminal`
work on bytes again, of which some continue a character.  A file's content in
`SaveFile` is a version number; in `Terminal` what the editor holds is the list of
events it executed, and a screen shows the last of them.

**Steps.**  The backend is one thread, so a request is one step, except where
something else can happen inside: the system calls of a save (other programs,
failures, loss of power, the before-save hook), the passes of the poll loop,
the entries of one undo command (to say where an undo may stop), the keys of a
macro that plays, the iterations of `!` (to say that they end), each byte, write
and wait of the terminal frontend, and each call and return in `PluginHost`, where a
callback may do anything between them.

**Auxiliary variables.**  They are read by properties only and marked in the
modules: the texts that version ids named (`versions`) and the text last saved
in `EditBuffer`, what was typed in `KeyInput`, where killed text came from in
`KillRing`, the requests executed for each client in `Server`, `alone` and `before` in `Minibuffer`, what
was typed and what was lost in `Terminal`, the hooks a save has to pass and the groups
of edits in `PluginHost`.

## What is checked

Each module has one type invariant.  Except in `EditBuffer`, where it is a property of
its own, it is the first conjunct of a property of the run: of `ArgumentIsTyped`,
`KillsJoin`, `SearchShowsMatch`, `PanesShowBuffers`, `StreamIntact`, `NoTempLeft`,
`HoldsText`, `KeysAreTyped` and `CommandIsOneGroup`; that of `LexCache` is proved.

*edit_buffer.*  `LogIsAPath`: each entry of the log reverts to the text it was
recorded over and re-applies to the one it made.  `CleanMeansSaved`:
"unmodified" means the text last saved, also after undo past a save and edits
from there; for version ids name one text for ever (`StateNamesText`, proved).
`UndoIsPerCommand`: undo and redo stop between commands.  `CursorOnBoundary`:
the text stays well-formed and point and mark never split a character.
`SetTextTakes`: the minimal replacement `set_text` computes is one
`editor_replace` accepts, and gives the text asked for.  The bytes are two that
can follow a lead byte, so that heads and tails may overlap within a character.
Two edits and the undos and redos of them reach every shape of the log the code
tells apart (empty, undone in part, undone and overwritten); the properties of
the log are proved for any number of edits.

*save_file.*  `ImplementsAtomicFile` for both paths, `SavedIsDurable`,
`CleanShowsFile`, `NoSilentOverwrite`, `NoTempLeft`.  Two paths (the buffer's
file and another for write-file), four versions and four time stamps: enough for
a foreign write and a hook's edit in each of two saves.

*server.*  `ExecutedInOrder`, `StreamIntact` (which includes that the detach flag
reaches only the client that asked) and `KeepsClients` for two clients on two slots, one pipelining two requests, with
frames of two units so that reads and writes can split them and buffers that
hold one and a half of them; `QuitDrains` and `QuitStops`, and
`RequestsAnswered`, which is liveness.

*key_input.*  `ArgumentIsTyped`: a command gets the argument typed for it;
`MacroIsWhatWasTyped`: a finished macro is the keys of the whole commands typed between
its start and its end, and the argument typed for the command that ended it, if there
was one; `PlaybackEnds`: playing ends, whatever the macro holds.  A macro of up
to four keys can hold its own ending and the playing of itself.

*workspace.*  `PanesShowBuffers`, `KilledOnlyWhenAsked`, `QuitSavesAll`, for two
buffers and two panes: each pane can show the buffer that is killed, and the
buffer asked about can cease to be the current one.

*kill_ring.*  `KillsJoin` and `PopReplacesYank`, with a ring of two entries that
overflows, in texts of up to three characters (a letter, a blank, a newline), for
every sequence of five commands, clicks and edits of clients: the longest case the
code tells apart is a kill, a kill that joins it, a motion, a yank and a yank-pop.

*minibuffer.*  `SearchShowsMatch`, `ReplaceAllReplaces`, `ReplaceAllEnds`; `FindsNearest` compares the Knuth-Morris-Pratt search of
`editor_find`, forward and backward, with its definition, for every word of up to
three characters in every text of five.  One prompt over two short texts in which
words overlap themselves; while it is open somebody else may come once.  A search may be
opened with an argument, as a command of a client or a plugin is; it is shown before it
is looked for (`Unlooked`), and `SearchShowsMatch` then says only that point has not
moved.  The buffer is made read-only and writable again between any two keys; in a
read-only one `!` and replace-string end with nothing replaced (`Refused`).

*view.*  `CacheIsChained` and `DrawnFresh`: every line is drawn with the state a
scan from the top gives it.  `ColumnsAgree`: whatever was edited, logged and asked
before, and whatever the tab width has become, a column found from a checkpoint is the
one a count from the beginning of the line gives, and so is the position found from a
column.  `ClickOnCursor`: the cell in which a snapshot draws the cursor is one that a
frontend's hit test gives back as the line and column of point, in that pane and no
other.  Up to three lines, each opening, closing or continuing a string or comment, of
characters no, one and two cells wide and tabs, in three modes; tab widths of 2 and 16;
checkpoints are taken after one character (4096 bytes in the code); windows from one too
small to divide to one that holds two panes of more than the least size, side by side and
one above the other.

*plugin_host.*  `CommandIsOneGroup`: all edits of a command, of the commands it runs
and of the hooks they set off are one undo group, which no other request shares;
`HooksGuardSaves`: no file is written before every hook registered for it when the save
began has returned normally.  Four calls of the API, each of which may fail, in any
nesting: enough for a hook that runs a command, which edits and saves, and for a
failure at any depth followed by another request.  Commands nest two deep (32 in the
code), so that the limit is reached; up to three hooks of two functions stand on one
event, two of them from the start or none; the stack has room for ten frames.

*terminal.*  `KeysAreTyped`: the editor executes the keys and pastes that were entered,
in their order and none twice.  `ScreenIsTrue`: though only changed rows are written,
the terminal shows what the editor holds.  The backend draws 4 to 200 rows whatever the
height is (`Clamp`), here 2 to 3; on terminals of 1, 2 and 4 rows, the first of which
takes rows below its last for its last, and shows there one of those it has no room for.  `StopsBoth`: quitting, a signal to either
process and the end of the terminal end both.  Up to two keys or pastes, of every
kind the decoder tells apart, and together with them at most three happenings: a byte
lost or late, a resize, a signal, the line hung up.  The terminal hands over one byte
at a time; the limits of a paste, of an escape sequence and of a frame are scaled down
so that each can be reached and passed (`MCFrameSize`).

*text_tree.*  `HoldsText`: the pieces, read from left to right, are the text;
`QueriesAgree`: lines, characters, bytes and slices found by the sums in the tree
are those a count of the text gives; `TypeOK`: the tree stays a treap of sound
pieces.  Characters of one and two bytes; an original of four bytes and three typed
ones in pieces of at most two (4096 in the code), so that opening cuts between
pieces, typing makes a piece grow up to the limit and beyond it, and deletion cuts
pieces in two; priorities of two values reach every shape such trees take, ties
included.

Deadlock is checked except in `edit_buffer` (the edits are bounded), `kill_ring` (the
steps are), `plugin_host` (the calls are), `save_file` (versions and stamps are), `server`
and `terminal` (they end) and `workspace` (the editor quits).

### Where code and documents disagree

The run `search_quit` checks a property that a document states, and TLC finds a run of
the code against it: in a failing search C-g goes back to the last input that was found,
and looks for it from where the search began.  If it had been found by wrapping or
turning round, it fails again, and every further C-g does the same
(`SecondQuitCancels`).

Seen while modelling, with no run of their own:

- *Keys.*  C-g drops a pending argument but not its sign, so that after `M-- C-g` the
  next command runs with count -1 (`commands.c` 159, 478); so does an undefined key.
- *Macros.*  end-kbd-macro drops the last two keys recorded (`commands.c` 338).  If C-x )
  was given an argument, the keys of that (C-u, M-1) stay at the end of the macro, and
  after playing it the next command gets that argument.  (`README.md` 199 says no more
  than that C-x ) ends the macro.)
- *Motion and search.*  C-e on an empty last line goes to the end of the line before,
  because `eol` takes the newline before the end of the text for one that ends this
  line (`commands.c` 73; `Eol` in `Motion`).  A repeated backward search steps over an
  occurrence that ends less than the length of the input before the current one
  (`commands.c` 369).
- *Yank.*  A click or an edit by a client between a yank and a yank-pop is no command,
  so yank-pop replaces whatever stands at the remembered offsets in the buffer that is
  current then (`commands.c` 237; docs/commands.html 8 has it follow a yank).
- *Prompts.*  isearch-forward with an argument opens the prompt with it and does not look
  for it (`commands.c` 293): "I-search: word" stands there, not failing, wherever point is,
  until the next key of the search.  Their remembered offsets are used after others have edited: y in
  query-replace replaces what stands there then (`commands.c` 420), and C-g after
  another client has shortened the text takes point beyond its end (`commands.c` 158).
- *Panes.*  other-window clamps the point it goes back to to the size of the text only;
  it can lie inside a character, where edits are refused (`commands.c` 324).
  delete-window does not restore the point of the pane it activates (`commands.c` 330).
- *Saving.*  A hook that kills the buffer being saved leaves `editor_save` with a freed
  buffer (`buffer.c` 153).  The file is looked up again by name after the rename, so
  that what another program put there meanwhile is taken for what was saved (`buffer.c`
  178).  The message of a failing after_open or after_save hook is overwritten by
  "Opened" or "Wrote".
- *Plugins.*  A hook set off by a request that is no command runs at command depth 0, so
  each of its `run_command` calls begins a group of its own (docs/api.html 24).  A save
  from within a hook calls no before_save hook.
  `set_point` leaves the goal column, so that C-n after a function that moved by lines and
  then set point goes on from where it was before (`python.c` 42; line 59 of
  `protocol.c` resets it).
- *Terminal.*  A terminal of fewer than 4 rows has the rows below its last written over
  each other on its last, and of more than 200 rows the rest stays empty (`view.c` 48).
  The screen is cleared when the number of rows drawn changes and not when the height does
  (`tui.c` 89): from one such height to another, what the terminal shows is not redrawn.
  A height that changes and changes back between two looks leaves the rows
  remembered and the rows shown apart.  A paste cut at its limit, or by a gap of two
  seconds, has its rest executed as keys.  A paste whose JSON exceeds `CP_MAX_FRAME`,
  as one full of control characters can, ends the frontend, and with it the private backend
  and all that was not saved; a frame of exactly `CP_MAX_FRAME` passes the sender and
  is refused by the reader unless the newline has arrived with it.  A lead byte that is
  not followed by its continuation swallows the byte after it.  Meta with a multi-byte
  character is cut after its first byte and refused.  detach-client in a private backend
  ends it.
- *X11.*  The receiver of a selection in pieces deletes the property twice, so that it can
  lose the first piece (`gui_x11.c` 148-149).  A large selection pasted into the window
  that owns it replaces that window's event mask (`gui_x11.c` 128).  If a receiver goes
  away, `sending` is never freed, and later large requests are refused.

### Fairness

- `Server`: `ServerStep`, because the loop is the program (poll returns while
  anything is to be done), and `Receive(c)`: a client that is connected reads,
  as docs/protocol.html asks.  Nothing is assumed of sending or hanging up.
- `KeyInput`: `PlayKey` and `PlayAgain`, the body of the loop of
  call-last-kbd-macro.  Nothing is assumed of typing.
- `Minibuffer`: `ReplaceNext`, the body of the loop of `!`.
- `Terminal`: `Frontend` and `Backend`, each of which is a loop that runs whenever it
  is not waiting, and `Arrive`: a byte on its way to the terminal gets there.  Nothing is
  assumed of typing, resizing and signals, nor of a timeout while there is something to
  read.

## What is proved

TLAPS checks the theorems of eight modules, for all values of the constants.  Every
proof of a property follows the same course: an inductive invariant, stronger than the
property, that TLC checked on the run's instance first; a lemma for each action (or
group of actions alike) that keeps it; and temporal steps at the end.

Where a proof needs induction, it is over the natural numbers for the members of a set
(`SetInduction`, from the well-foundedness of `<` by way of a least counterexample, as
the library's own theorem has an operator for a parameter).

`EditBufferProofs`.  The inductive invariant `LogInv` is `TypeOK`, `LogIsAPath`
and `StateNamesText` together with `StatesUsed` (every id in the log, the current
and the saved one are among those given out) and "the text saved is what the saved
id names".  None of the three goes without the others: that undo restores a text
needs the entry's place in the path, that the path stays one needs ids that name
one text, and that a new id names one needs ids never given twice.
`SpliceInverse` says that removing what was inserted and inserting what was removed
restores the text, and `RecordStep` and `UndoEntryStep` carry the invariant over an
edit and an entry undone.  From it: `TypeCorrect`, `CleanIsSaved`,
`StateIdentifiesText`, `LogReverts`.  `CursorInv` adds that every text a version id
names is well-formed and that the cursors in the log stand on boundaries of the texts
they belong to, for undo brings both back; with lemmas on what a splice does to
boundaries it gives `CursorStaysOnBoundary` and `SetTextAlwaysTakes`, and `GroupInv`,
the place of an undo under way within its group, gives `UndoStopsBetweenCommands`.
The only assumptions are that inputs are sequences of bytes and bounds are natural
numbers (`ByteAssumption`, `InputAssumption`, `BoundAssumption`).

`SaveAndPluginProofs`, of `SaveFile`.  `IInv` says of the disk that no name ever holds a file that is not
whole and synced (`FilesOK`), of the temporary file how far the save has brought it at
each of its steps (`TempOK`), of time stamps that one stands for one content
(`StampsOK`), and what the buffer knows of its file, what the tests before the rename
have seen and what is owed to the disk.  Files on the disk must be known to be whole
before opening one can give the buffer its content, and stamps to name contents before
equal metadata can mean the same file.  From it: `NoTempRemains`, `SavesAreDurable`,
`CleanBufferShowsFile` and, of the step that renames, `OverwritesAreGuarded`.
`EveryPathIsAtomic` is the refinement, a step of `SaveFile` being a step of
`AtomicFile` or none at every path, and `SaveFileRefines` that of the two paths the run
looks at.  Assumed: positive bounds (`BoundAssumption`), a `None` that is neither path,
number nor file (`NoneAssumption`), and that the two paths are paths
(`PathAssumption`).

`WorkspaceProofs`.  `IInv` is that the buffers are a list with different ids below the
next one and texts within the bounds, and the current one is in it (`Listed`); that the
panes show buffers of the list, the active one the current buffer (`Shown`); that what a
prompt asks about is an id given out (`Asked`); and `QuitSavesAll`.  Killing a buffer is
where they meet: the panes that showed it must be given another that is there, and ids
never given twice are why a confirmation cannot hit a buffer made since.  Typing that
nested quantifiers hide (inserting in the list, replacing an element, mapping the panes)
is in lemmas of its own.  From it: `PanesAlwaysShowBuffers`, `QuitLeavesNothing` and the
action property `ModifiedIsAskedFor`.  Assumed: names for all files, `NoFile` no file,
characters that are not empty and a positive bound on ids (`NameAssumption`,
`FileAssumption`, `BoundAssumption`).

`CommandProofs`, of `KeyInput`.  `ArgumentInv` relates the fields of the pending argument
to the keys typed for it: the value is their `Number`, a digit has been typed if they have
one, and so on (`Stands`); without a pending argument nothing is typed.  `RanInv` is
`ArgumentIsTyped`, and `MacroInv` that a macro being recorded is the whole commands typed
for it followed by the keys of the one under way, which are argument keys followed by those
of a sequence; two of the latter are what end-kbd-macro drops (`EndMacroKeeps`), so that
what stays of its own keys are the former.  What several keys mean is a recursive
function of them; `RunsExist`, `RunsTyped` and `RunsOnly` say that such a function exists,
stays in its range and has the value its steps give it.  From it: `ArgumentsAreTyped`,
`MacrosKeepCommands`.  Assumed: limits, of which that of counts lets a C-u pass
(`LimitAssumption`).

`CommandProofs`, of `KillRing`.  `RingInv` says that buffers are well-formed and positions
in their texts (`BuffersOk`), the ring within its limit and the last yank in it (`RingOk`),
that the entry of a run of kills puts back what the run removed (`KillInv`), and that the
ends the editor remembers are those of the entry it yanked and nothing else in the text has
changed since (`YankInv`).  A kill that joins extends the entry at the end at which the
text it removes lies: `KillPutsBack` cuts the text in three and puts it together again;
`PopReplaces` does so for yank-pop.  That every command reaches a position of the text,
whatever its count, is in lemmas on `Motion` (`TargetsInside`, `MoveWordInside`).  From it:
`KillsAreJoined` and `PopsReplaceYanks`.  Assumed: counts are integers, the texts at the
start are texts within the bound, newline and space are characters (`CountAssumption`,
`TextAssumption`, `CharAssumption`).

`ViewProofs`, of `LexCache`.  `IInv` is `TypeOK` and `CacheIsChained`: each trusted state is
the scan of the line before from the state before.  `EditKeepsHead` is the reason it
survives an edit: the lines before the edited one are the same lines.  That a chain is
what a scan from the top gives (`DrawnStatesAreFresh`) is an induction over the lines.
Nothing is assumed of the scanner but that it yields states.  From it: `TypeCorrect`,
`ChainKept`, `DrawnStatesAreFresh`; and, as a step of `View` is a step of `LexCache` or none
(`ViewImplementsLexCache`), the same while columns are asked for.

`ViewProofs`, of `View`.  `ViewInv` adds to `IInv` that each checkpoint that is valid holds a
position of a line there is, and the column a count from the beginning of that line gives
it (`IsCheckpoint`).  `KeptCounts` is why an edit may keep one: where it lies before the
edit its line begins where it did, and the characters it counted are the same.  `ScanOn`
says that counting on from a position and its column is counting from the beginning, and
`ScanToStops` that looking for a column from there stops at the same position; `InOneLine`
and `InSomeLine` that a position has one line.  From it: `CheckpointsAgree`.  Of the panes,
`PaneShowsText` says that each has room for a line and a column besides its line numbers,
`HitsOnePane` that no two share a cell, and `CursorShown` that the cell of the cursor leads
back; with the columns being numbers, which is of `ViewInv`, they give `ClicksFindCursor`.
Assumed: lines are sequences of characters, each some columns wide, tab stops are apart
(`LineAssumption`, `WidthAssumption`), and the window has room for its message and two lines,
and so has the smallest pane (`ScreenAssumption`; the code's are 4 rows and 3).

`SaveAndPluginProofs`, of `PluginHost`.  `HookInv` describes every stack of calls that can arise: what
stands on a native function is an event, an event stands on nothing else, and what the
function has left to do is in order (`Shape`); there is one event at most, its next
callback is the one that runs, and the callbacks that passed followed by those still to
be called are those the save began with (`EventOK`); a save about to call its hooks has
called none, and one about to write has called them all, unless one has just failed
(`SaveOK`); and `in_hook` is set exactly while an event is on the stack.  The flag is
what keeps a second event off the stack, without which what a save has passed could not be
read from it; and that an event returns only when it is done, or has failed one that may
fail, is what brings a save to its write.  `PushOther`, `PopOther`, `SwapNative` and their
like for events say what a call, a return and a step do to such a stack.  From it:
`HookInvariant`, `SavesAreGuarded`, for any depth, any number of calls and any
registrations.  `DepthInv` adds that the depth is the number of commands on the stack
(a cardinality that each call and return changes by one), that there is room for what
the limit lets on, and that a request which is a command has it at the bottom of the
stack; `EditsInv` that the edits of earlier requests are in earlier groups.  From them:
`CommandsAreGroups`.  The assumptions are that the bounds are positive and that what is
registered at the start is a sequence of callbacks (`PluginAssumption`).

`MinibufferProofs`, of `editor_find`.  The failure function is a table of borders:
`Longest(w, t, b, i, most, k)` says that k is the most characters of w, of at most `most`,
that t ends with at i, and `Borders` that the table holds that for w in itself.
`AdvanceLongest` says that one character read behind the longest match gives the longest
match again, the retries of its loop passing over no longer one; with it `TableExists` builds the
table and `ReadSees` reads the text: after each character, what is matched is the longest
there is, and what was found is the first, or backward the last, occurrence that lies
behind (`Seen`).  From it: `FindsFirst` and `FindsLast`, of any word in any text, and
`SearchFindsNearest`.  The recursive functions of the model are shown to be what their
recursion says (`DescentExists`, `DescentTyped`) by induction on the size of the argument.

`MinibufferProofs`, of the prompts.  `PromptInv` is `Typed` (`TypeOK`, that the words which go back
into the minibuffer fit it, that no replacement is of nothing, and that point can go back
to where a search began), `ShowsMatch`, `AsksOfMatch` (what a query asks about stands where
it asks) and `LoopPromise`: the text with what the loop of `!` has still to replace
replaced is the text it began with replaced; in a read-only buffer, where the first edit
ends the loop, it is the text it began with.  `RewrittenReplaced` says that one replacement
keeps that, because the search goes on behind what it has put there; `RewrittenSkips`
that going on to the next occurrence does, and `RewrittenEnds` that without one nothing is
left to do.  That all this survives is for a prompt with nobody else in the buffer: what a click or
another client does to it is why `alone` is in the properties.  From it: `PromptsAreTrue`,
`SearchesShowMatches`, `ReplacesAll`.  Assumed: a minibuffer that holds a character,
and texts that are sequences of characters (`BoundAssumption`, `TextAssumption`).

`ServerProofs`.  What a slot has read and what is on its way to it are one sequence of
requests, from the first not yet executed to the last one sent (`Asked`); what has reached
a client and what is queued and not yet sent are one sequence of responses, to all that
were executed (`Told`).  `ServerInv` says so of each slot that is taken, with no other
slot for the same client (`Served`), and that clients are not in two places at once: in
the backlog, or served, or gone (`Early`, `Waiting`, `AtSlot`).  Reads and writes, wherever
they stop, move the border within one sequence (`BorderMoves`); executing takes two halves
from the one and adds two to the other (`AskedLess`, `ToldMore`); and a slot that is
given away was emptied before.  From it: `RequestsExecutedInOrder`, `StreamsStayIntact`
and, of the step that ends the loop, `QuitDeliversAnswers`.  `ClientsAreKept` is about the
steps that close a peer.  What poll reported may be several steps old when it is used:
`Reported` says that it still holds of the client the slot has then, up to its read, as a
free slot was not reported, a slot that accept fills was free, and nobody but the server
takes what a client has sent.  And `OneOutstanding` bounds the two buffers of a client
that has sent one request more than it has read answers to: one frame of input, and no
output left when that frame is executed.  Assumed: positive sizes, buffers that have room
for a frame (`MaxIn` is the limit on a frame's length itself), and a `None` that is no client (`SlotAssumption`, `SizeAssumption`, `FrameAssumption`).

`TerminalProofs`.  The frontend and the backend take turns, and what has been read of an
event is kept until the event is whole and no longer (`Turns`, `Keeps`).  For the screen:
the cache holds what the editor held when it was last drawn, until an answered state is
drawn, that is what it holds now, and the terminal shows the cache (`Drawn`); `DrawShows`
says that writing the rows that changed, from the top, makes it show what is drawn, the
last one written staying on the last row of a terminal that is too low.  From it,
`ScreenStaysTrue`.  For the keys:
what was typed is what was executed, the event under way and the events still to be read,
and the bytes on their way are those of the latter, one after the other (`Ahead`), behind
the rest of the event that is being read (`Within`), if there is one (`Between`).  For each
place in `read_event`, `Rest` says what that rest can be, and the lemmas `FirstByteTyped`,
`EscByteTyped`, `SeqByteTyped`, `PasteByteTyped` and `Utf8ByteTyped` that a byte is taken
for what it is: `PasteWhole` that a paste ends at its own mark and at no other,
`EscIsLast` why an ESC followed by a pause is a key of its own.  From it:
`WhatIsTypedIsExecuted`.  Assumed: positive limits and heights, the fewest rows drawn being no more than the most
(`TerminalAssumption`), a `None` that is
nothing that is sent (`NoneAssumption`), and of the events what makes them readable at all
(`EventAssumption`): each is valid text, a key is one character, with Meta a byte other
than `[` and `O`, which after ESC begin a sequence, and no mark ends a paste before its
end.

Only model-checked: liveness and its fairness (`RequestsAnswered`, `QuitStops`,
`PlaybackEnds`, `ReplaceAllEnds`, `StopsBoth`), which the provers do not do; and
`PieceTable`, whose trees are walked by RECURSIVE operators, which the prover does not
take.

## What is not modelled

- Mode plugins and user configuration: tables of modes, bindings and colours, read once.
- The formatter: a sequential script that applies its result only if the buffer is the
  one, at the revision, that it started from.  The one call with which it
  does is in `EditBuffer`; what a command that calls back may meet is in `PluginHost`.
- `term_style.c`: floating-point contrasts and a table of colours.  In `tui.c` start-up
  and the painting within a row; widths (that of the terminal is taken to be one of the 12
  to 500 columns that are drawn), a height that is not known (24 is taken), and characters
  of three and four bytes, which are read like those of two.
- In the X11 frontend the event loop, drawing, fonts and colours, which are calls of Xlib;
  and the transfer of selections, which is planned.
- Start-up of all programs, options, the peer credential test and the refusals of a
  second server.
- Within modelled parts: prompts that only read an argument, completion, vertical motion
  and its goal column, changes of case, mode-local key bindings, BOM and CRLF conversion,
  UTF-8 decoding (`EditBuffer` says which byte strings are `Valid`), the cutting of lines
  to a pane and its colours, where in a row a character is drawn, `text_changed` hooks that
  edit while `!` replaces, hooks that modify buffers again while all are saved (one step
  of `Workspace`), JSON, conversion of Python arguments, allocation and its
  limits.

`PROJECT.json` lists each part with the reason.

## Plan

Done, in this order: `EditBuffer` with its proofs (everything else edits through
it), `SaveFile` over `AtomicFile`, `Server`, `KeyInput`, `Workspace`, `KillRing`,
`LexScan` and `LexCache`, `Minibuffer`, `PieceTable`, `Motion`, `View` over `LexCache`,
both with their proofs, `Terminal` and `PluginHost` with their proofs, the proofs of
`Minibuffer`.

All properties of `EditBuffer`, `SaveFile`, `Workspace`, `LexCache`, `View`, `KillRing` and
`PluginHost` and the safety properties of `KeyInput`, `Minibuffer`, `Terminal` and `Server`
are proved.

Next, models:

1. `Selection`: the transfer of a large selection in pieces between two clients of the
   X server, each of which may go away.
2. `FileFormat`: BOM and line ends through open and save.
3. In `Motion`: vertical motion with its goal column, changes of case.
4. `PluginHost` composed with `Workspace`, for hooks that kill or switch buffers.
