----------------------------- MODULE Minibuffer -----------------------------
(***************************************************************************)
(* Incremental search, query-replace and replace-string: the prompts of    *)
(* prompt_key (src/src/commands.c) that work on the text while they are    *)
(* open, and editor_find (src/src/buffer.c).  The confirmations are in     *)
(* Workspace; the prompts that only collect an argument are left out.      *)
(*                                                                         *)
(* There is one prompt for all clients.  While it is open a click moves    *)
(* point, and operations of other clients edit the text: Click and         *)
(* ClientReplace.  What the prompt remembers (search_origin, replace_at)   *)
(* does not follow.  A command run by a client or a plugin opens a search  *)
(* with an argument, and makes the buffer read-only at any time.           *)
(* Characters are one byte wide.  The loop of "!" is a step per            *)
(* replacement, with nothing else enabled until it ends: text_changed      *)
(* hooks, which run within a replacement and may edit again, are left out. *)
(***************************************************************************)
EXTENDS Integers, Sequences

CONSTANTS
    Chars,       \* the characters typed
    Texts,       \* the texts a session begins with
    MaxInput,    \* the characters a minibuffer holds (CP_PROMPT_MAX - 1)
    MaxText,     \* bound on the text a prompt is opened for or a client edits
    MaxPrompts   \* bound on the prompts opened

ASSUME TextAssumption == Texts \subseteq Seq(Chars)
ASSUME BoundAssumption == MaxInput \in Nat \ {0} /\ MaxText \in Nat /\ MaxPrompts \in Nat

VARIABLES
    text, point, mark,                  \* the current buffer; mark is -1 while unset
    readonly,                           \* its edits are refused
    prompt_command, input, input_point,
    search_origin, search_backward, search_failed, search_wrapped,
    search_good, last_search,
    replace_from, replace_to, replace_at,
    all,        \* the loop of "!" is running
    prompts,    \* auxiliary: how many were opened
    alone,      \* auxiliary: point was in the text, and nobody else came since
    before      \* auxiliary: the text when the loop began, and where

buffer == <<text, point, mark>>
minibuffer == <<prompt_command, input, input_point>>
found == <<search_failed, search_wrapped, search_good>>
search == <<search_origin, search_backward, found, last_search>>
query == <<replace_from, replace_to, replace_at, all, before>>
vars == <<buffer, readonly, minibuffer, search, query, prompts, alone>>

Searching == prompt_command \in {"isearch-forward", "isearch-backward"}
Asking == prompt_command \in {"query-from", "query-to", "replace-from", "replace-to"}
Stepping == prompt_command = "query-step"

Nothing == [text |-> <<>>, at |-> -1]

-----------------------------------------------------------------------------
(***************************************************************************)
(* editor_find: Knuth, Morris and Pratt.                                   *)
(***************************************************************************)
NotFound == -1

\* After a mismatch the character is not tried again.
Advance_NoRetry(needle, pi, j, c) == IF c = needle[j + 1] THEN j + 1 ELSE 0

\* How many characters of needle match once c has been read behind j of them:
\* pi says how many still match when the next one does not.
Advance(needle, pi, j, c) ==
    LET from[i \in 0 .. j] ==
            IF c = needle[i + 1] THEN i + 1
            ELSE IF i = 0 THEN 0 ELSE from[pi[i - 1]]
    IN  from[j]

\* The failure function: the needle is looked for in itself.
Failure(needle) ==
    LET pi[i \in 0 .. Len(needle) - 1] ==
            IF i = 0 THEN 0 ELSE Advance(needle, pi, pi[i - 1], needle[i + 1])
    IN  pi

\* What is known behind another character c, at position i.  Forward, the first
\* match is the result.
Read(needle, pi, backward, last, i, c) ==
    LET matched == Advance(needle, pi, last.matched, c)
    IN  IF ~backward /\ last.result # NotFound THEN last
        ELSE IF matched < Len(needle) THEN [matched |-> matched, result |-> last.result]
        ELSE [matched |-> pi[Len(needle) - 1], result |-> i - Len(needle)]

\* Where needle stands in t: forward, the first from start on; backward, the
\* last that ends by start.
Find(t, needle, start, backward) ==
    LET from == IF start > Len(t) THEN Len(t) ELSE start
        off == IF backward THEN 0 ELSE from
        limit == IF backward THEN from ELSE Len(t)
        pi == Failure(needle)
        scan[i \in off .. limit] ==
            IF i = off THEN [matched |-> 0, result |-> NotFound]
            ELSE Read(needle, pi, backward, scan[i - 1], i, t[i])
    IN  IF needle = <<>> THEN from ELSE scan[limit].result

-----------------------------------------------------------------------------
(***************************************************************************)
(* The prompt.                                                             *)
(***************************************************************************)

\* prompt
PromptWith(cmd, initial) ==
    prompt_command' = cmd /\ input' = initial /\ input_point' = Len(initial)

Prompt(cmd) == PromptWith(cmd, <<>>)

\* prompt_clear
PromptClear == Prompt("")

\* A command opens a prompt, whichever is open.
Opened ==
    /\ ~all
    /\ prompts < MaxPrompts /\ Len(text) <= MaxText
    /\ prompts' = prompts + 1
    /\ alone' = (point <= Len(text))
    /\ UNCHANGED readonly

\* isearch-forward, isearch-backward.  A command run by the protocol or a plugin
\* may bring an argument: what fits of it is the input, and is not looked for.
StartSearch(backward, arg) ==
    /\ Opened
    /\ PromptWith(IF backward THEN "isearch-backward" ELSE "isearch-forward", arg)
    /\ search_origin' = point
    /\ search_backward' = backward
    /\ search_failed' = FALSE /\ search_wrapped' = FALSE /\ search_good' = <<>>
    /\ UNCHANGED <<buffer, last_search, query>>

\* query-replace, replace-string
StartReplace(cmd) ==
    /\ Opened
    /\ Prompt(cmd)
    /\ UNCHANGED <<buffer, search, query>>

\* Keys go to a prompt while no loop runs.
Key == ~all /\ UNCHANGED <<readonly, prompts, alone>>

-----------------------------------------------------------------------------
(***************************************************************************)
(* Incremental search.                                                     *)
(***************************************************************************)

\* Where a repeated search goes on from: backward, the match at p is stepped
\* over, and so is whatever overlaps the characters before it.
From(needle, p, backward) == IF backward /\ p >= Len(needle) THEN p - Len(needle) ELSE p

\* search_update(repeat): the search for the needle, with point at p.
SearchUpdate(repeat, needle, p, backward) ==
    LET start == IF repeat THEN From(needle, p, backward) ELSE search_origin
        first == Find(text, needle, start, backward)
        wraps == repeat /\ first = NotFound
        at == IF wraps THEN Find(text, needle, IF backward THEN Len(text) ELSE 0, backward)
                       ELSE first
    IN  /\ search_wrapped' = (search_wrapped \/ wraps)
        /\ search_failed' = (at = NotFound)
        /\ IF at = NotFound
           THEN point' = p /\ UNCHANGED search_good
           ELSE /\ point' = IF backward THEN at ELSE at + Len(needle)
                /\ search_good' = needle

\* The input has changed: a search starts over from where it began.
Edited(new, at) ==
    /\ input' = new
    /\ input_point' = at
    /\ IF ~Searching THEN UNCHANGED <<point, found>>
       ELSE IF new = <<>> THEN point' = search_origin /\ UNCHANGED found
       ELSE SearchUpdate(FALSE, new, search_origin, search_backward)

InputKey ==
    /\ Key
    /\ Searching \/ Asking
    /\ UNCHANGED <<text, mark, prompt_command, search_origin, search_backward,
                   last_search, query>>

Without(s, i) == SubSeq(s, 1, i - 1) \o SubSeq(s, i + 1, Len(s))

Fits == Len(input) < MaxInput
With(c) == SubSeq(input, 1, input_point) \o <<c>> \o SubSeq(input, input_point + 1, Len(input))

\* A printable key, or C-y, which inserts several at once.  What does not fit
\* is refused, and a search starts over.
Insert(c) ==
    /\ InputKey
    /\ IF Fits THEN Edited(With(c), input_point + 1) ELSE Edited(input, input_point)

\* The insert operation of the protocol: editor_paste.
Paste(c) ==
    /\ InputKey
    /\ Fits
    /\ input' = With(c)
    /\ input_point' = input_point + 1
    /\ IF Searching THEN SearchUpdate(FALSE, With(c), point, search_backward)
                    ELSE UNCHANGED <<point, found>>

\* DEL
DeleteBackward ==
    /\ InputKey
    /\ IF input_point > 0 THEN Edited(Without(input, input_point), input_point - 1)
                          ELSE Edited(input, input_point)

\* C-d
DeleteForward ==
    /\ InputKey
    /\ IF input_point < Len(input) THEN Edited(Without(input, input_point + 1), input_point)
                                   ELSE Edited(input, input_point)

\* C-k
KillInput == InputKey /\ Edited(SubSeq(input, 1, input_point), input_point)

\* C-a, C-e, C-b, C-f
MoveInput(at) ==
    /\ InputKey
    /\ at \in {0, Len(input), input_point - 1, input_point + 1} \cap 0 .. Len(input)
    /\ Edited(input, at)

\* C-s and C-r in a search; with no input yet, for what was searched last.
Repeat(backward) ==
    /\ Key
    /\ Searching
    /\ search_backward' = backward
    /\ LET needle == IF input = <<>> THEN last_search ELSE input
       IN  /\ input' = needle
           /\ input_point' = IF input = <<>> THEN Len(needle) ELSE input_point
           /\ IF needle = <<>> THEN UNCHANGED <<point, found>>
                               ELSE SearchUpdate(TRUE, needle, point, backward)
    /\ UNCHANGED <<text, mark, prompt_command, search_origin, last_search, query>>

\* What C-g goes back to is shown, not looked for.
Looked_NotAgain(needle) ==
    search_failed' = FALSE /\ UNCHANGED <<point, search_wrapped, search_good>>

\* What C-g goes back to is looked for from where the search began.
Looked(needle) ==
    IF needle = <<>>
    THEN search_failed' = FALSE /\ UNCHANGED <<point, search_wrapped, search_good>>
    ELSE SearchUpdate(FALSE, needle, point, search_backward)

\* C-g in a search that fails: back to the input that was found.
BackToGood ==
    /\ Key
    /\ Searching /\ search_failed
    /\ input' = search_good
    /\ input_point' = Len(search_good)
    /\ Looked(search_good)
    /\ UNCHANGED <<text, mark, prompt_command, search_origin, search_backward,
                   last_search, query>>

\* C-g: keyboard-quit
KeyboardQuit ==
    /\ Key
    /\ Asking \/ (Searching /\ ~search_failed)
    /\ point' = IF Searching THEN search_origin ELSE point
    /\ PromptClear
    /\ UNCHANGED <<text, mark, search, query>>

\* RET in a search
AcceptSearch ==
    /\ Key
    /\ Searching
    /\ PromptClear
    /\ last_search' = input
    /\ mark' = search_origin
    /\ UNCHANGED <<text, point, search_origin, search_backward, found, query>>

\* A key that is no input ends the search and does what it is bound to: here,
\* it moves point.
LeaveSearch(p) ==
    /\ Key
    /\ Searching
    /\ PromptClear
    /\ last_search' = input
    /\ p <= Len(text) /\ point' = p
    /\ UNCHANGED <<text, mark, search_origin, search_backward, found, query>>

-----------------------------------------------------------------------------
(***************************************************************************)
(* Replacing.                                                              *)
(***************************************************************************)

\* query_next: the next occurrence in t, from p on, is shown and asked about.
\* looping: the answer is known.
QueryNext(t, p, m, from, looping) ==
    LET at == Find(t, from, p, FALSE)
    IN  IF at = NotFound
        THEN /\ PromptClear
             /\ all' = FALSE
             /\ point' = p /\ mark' = m
             /\ UNCHANGED replace_at
        ELSE /\ Prompt("query-step")
             /\ all' = looping
             /\ replace_at' = at
             /\ point' = at + Len(from) /\ mark' = at

\* RET after what to replace
AcceptFrom ==
    /\ Key
    /\ prompt_command \in {"query-from", "replace-from"}
    /\ IF input = <<>>
       THEN PromptClear /\ UNCHANGED replace_from
       ELSE /\ replace_from' = input
            /\ Prompt(IF prompt_command = "query-from" THEN "query-to" ELSE "replace-to")
    /\ UNCHANGED <<buffer, search, replace_to, replace_at, all, before>>

\* RET after what to replace it by: the first occurrence is asked about, or
\* with replace-string all are replaced.
AcceptTo ==
    /\ Key
    /\ prompt_command \in {"query-to", "replace-to"}
    /\ replace_to' = input
    /\ QueryNext(text, point, mark, replace_from, prompt_command = "replace-to")
    /\ before' = IF all' THEN [text |-> text, at |-> replace_at'] ELSE Nothing
    /\ UNCHANGED <<text, search, replace_from>>

\* The search goes on where the replacement begins.
Behind_Not == replace_at

\* The search goes on as if the replacement were as long as the word.
Behind_Same == replace_at + Len(replace_from)

\* Where the search goes on after a replacement.
Behind == replace_at + Len(replace_to)

\* relocate of editor_replace, for the mark
Relocated(p, at, removed, added) ==
    IF p <= at THEN p
    ELSE IF p <= at + removed THEN at + added
    ELSE p - removed + added

Replaced(t, at, count, s) == SubSeq(t, 1, at) \o s \o SubSeq(t, at + count + 1, Len(t))

\* editor_replace refuses an edit of a read-only buffer or beyond its text.
Refused(at, count) == readonly \/ at + count > Len(text)

\* The replacement where the question was asked, whatever stands there now.
\* A refusal ends the prompt.
ReplaceHere(looping) ==
    LET count == Len(replace_from)
    IN  IF Refused(replace_at, count)
        THEN /\ PromptClear
             /\ all' = FALSE
             /\ UNCHANGED <<buffer, replace_at>>
        ELSE /\ text' = Replaced(text, replace_at, count, replace_to)
             /\ QueryNext(text', Behind,
                          Relocated(mark, replace_at, count, Len(replace_to)),
                          replace_from, looping)

\* y
ReplaceOne ==
    /\ Key
    /\ Stepping
    /\ ReplaceHere(FALSE)
    /\ UNCHANGED <<search, replace_from, replace_to, before>>

\* ! is the answer from here on.
ReplaceAll ==
    /\ Key
    /\ Stepping
    /\ all' = TRUE
    /\ before' = [text |-> text, at |-> replace_at]
    /\ UNCHANGED <<buffer, minibuffer, search, replace_from, replace_to, replace_at>>

\* An iteration of its loop.
ReplaceNext ==
    /\ all
    /\ ReplaceHere(TRUE)
    /\ before' = IF all' THEN before ELSE Nothing
    /\ UNCHANGED <<search, replace_from, replace_to, readonly, prompts, alone>>

\* n
Skip ==
    /\ Key
    /\ Stepping
    /\ QueryNext(text, point, mark, replace_from, FALSE)
    /\ UNCHANGED <<text, search, replace_from, replace_to, before>>

\* q, RET or C-g
QuitReplace ==
    /\ Key
    /\ Stepping
    /\ PromptClear
    /\ UNCHANGED <<buffer, search, query>>

-----------------------------------------------------------------------------
(***************************************************************************)
(* Everybody else.                                                         *)
(***************************************************************************)
\* (Bound: nobody else comes twice while a prompt is open.)
Foreign ==
    /\ ~all
    /\ alone \/ prompt_command = ""
    /\ alone' = (alone /\ prompt_command = "")
    /\ UNCHANGED <<readonly, minibuffer, search, query, prompts>>

\* The click of a mouse.
Click(p) ==
    /\ Foreign
    /\ p <= Len(text)
    /\ point' = p
    /\ UNCHANGED <<text, mark>>

\* The replace of the protocol: characters are removed.
ClientReplace(at, count) ==
    /\ Foreign
    /\ ~Refused(at, count) /\ Len(text) <= MaxText
    /\ text' = Replaced(text, at, count, <<>>)
    /\ point' = Relocated(point, at, count, 0)
    /\ mark' = Relocated(mark, at, count, 0)

\* toggle-read-only, from a client or a plugin while a prompt is open; without
\* one from the user too.
ToggleReadOnly ==
    /\ ~all
    /\ readonly' = ~readonly
    /\ UNCHANGED <<buffer, minibuffer, search, query, prompts, alone>>

-----------------------------------------------------------------------------
Init ==
    /\ text \in Texts
    /\ point \in 0 .. Len(text) /\ mark = -1
    /\ readonly = FALSE
    /\ prompt_command = "" /\ input = <<>> /\ input_point = 0
    /\ search_origin = 0 /\ search_backward = FALSE
    /\ search_failed = FALSE /\ search_wrapped = FALSE
    /\ search_good = <<>>
    /\ last_search \in {<<>>} \cup [1 .. 1 -> Chars]    \* of an earlier search
    /\ replace_from = <<>> /\ replace_to = <<>> /\ replace_at = 0
    /\ all = FALSE
    /\ prompts = 0 /\ alone = TRUE /\ before = Nothing

Next ==
    \/ \E backward \in BOOLEAN, n \in 0 .. MaxInput :
          \E arg \in [1 .. n -> Chars] : StartSearch(backward, arg)
    \/ \E cmd \in {"query-from", "replace-from"} : StartReplace(cmd)
    \/ \E c \in Chars : Insert(c) \/ Paste(c)
    \/ DeleteBackward
    \/ DeleteForward
    \/ KillInput
    \/ \E at \in 0 .. MaxInput : MoveInput(at)
    \/ \E backward \in BOOLEAN : Repeat(backward)
    \/ BackToGood
    \/ KeyboardQuit
    \/ AcceptSearch
    \/ \E p \in 0 .. Len(text) : LeaveSearch(p)
    \/ AcceptFrom
    \/ AcceptTo
    \/ ReplaceOne
    \/ ReplaceAll
    \/ ReplaceNext
    \/ Skip
    \/ QuitReplace
    \/ \E p \in 0 .. Len(text) : Click(p)
    \/ \E at, count \in 0 .. MaxText : ClientReplace(at, count)
    \/ ToggleReadOnly

Spec == Init /\ [][Next]_vars

\* The loop of "!" is a loop of the program.
FairSpec == Spec /\ WF_vars(ReplaceNext)

-----------------------------------------------------------------------------
(***************************************************************************)
(* Properties.                                                             *)
(***************************************************************************)
Occurs(t, needle, at) ==
    at >= 0 /\ at + Len(needle) <= Len(t) /\ SubSeq(t, at + 1, at + Len(needle)) = needle

\* The cursor of the minibuffer stays in its input whatever replaces it, and
\* with nobody else in the buffer point stays in the text.
TypeOK ==
    /\ text \in Seq(Chars) /\ mark \in Int
    /\ point \in Nat /\ readonly \in BOOLEAN
    /\ alone => point <= Len(text)
    /\ prompt_command = "" \/ Searching \/ Asking \/ Stepping
    /\ input \in Seq(Chars) /\ Len(input) <= MaxInput
    /\ input_point \in 0 .. Len(input)
    /\ search_origin \in Nat /\ replace_at \in Nat
    /\ search_backward \in BOOLEAN /\ search_failed \in BOOLEAN /\ search_wrapped \in BOOLEAN
    /\ search_good \in Seq(Chars) /\ last_search \in Seq(Chars)
    /\ replace_from \in Seq(Chars) /\ replace_to \in Seq(Chars)
    /\ Stepping => replace_from # <<>>
    /\ all => Stepping
    /\ prompts \in 0 .. MaxPrompts /\ alone \in BOOLEAN

\* editor_find finds the first occurrence after a position, and the last one
\* before it, of words that overlap themselves or each other (looked at in each
\* text before the first prompt).
FindsNearest ==
    prompts = 0 =>
        \A needle \in UNION {[1 .. n -> Chars] : n \in 1 .. 3}, start \in 0 .. Len(text) :
            LET after == {at \in start .. Len(text) : Occurs(text, needle, at)}
                ahead == {at \in 0 .. start - Len(needle) : Occurs(text, needle, at)}
                next == Find(text, needle, start, FALSE)
                last == Find(text, needle, start, TRUE)
            IN  /\ IF after = {} THEN next = NotFound
                                 ELSE next \in after /\ \A at \in after : next <= at
                /\ IF ahead = {} THEN last = NotFound
                                 ELSE last \in ahead /\ \A at \in ahead : at <= last

\* A search opened with an argument, before any key: a search either fails or
\* remembers its input as found.
Unlooked == input # <<>> /\ ~search_failed /\ search_good = <<>>

\* What a search shows is true after any typing, deleting, repeating, turning
\* round and going back: unless it says that it fails, its input stands where
\* point is; if it does, the input stands nowhere on from where it began.  Only
\* the argument a command opened it with is shown without having been looked
\* for, with point still where the search began, until the first key.
SearchShowsMatch ==
    /\ TypeOK
    /\ Searching /\ alone /\ input # <<>> =>
        IF Unlooked THEN point = search_origin
        ELSE IF ~search_failed
        THEN Occurs(text, input, IF search_backward THEN point ELSE point - Len(input))
        ELSE \A at \in 0 .. Len(text) :
                Occurs(text, input, at) => IF search_backward THEN at + Len(input) > search_origin
                                                              ELSE at < search_origin

\* Text t with every occurrence from position p on replaced, from the left, the
\* replacements not looked into.
AllReplaced(t, p) ==
    LET rest[i \in 0 .. Len(t)] ==
            IF i = Len(t) THEN <<>>
            ELSE IF Occurs(t, replace_from, i) THEN replace_to \o rest[i + Len(replace_from)]
            ELSE <<t[i + 1]>> \o rest[i + 1]
    IN  SubSeq(t, 1, p) \o rest[p]

\* replace-string, and ! of query-replace, replace what stood there when they
\* began: all of it, once, also where the replacement contains the word.  In a
\* read-only buffer they end with nothing replaced, never with a part of it.
ReplaceAllReplaces ==
    [][ all /\ ~all' /\ alone =>
            text' = IF readonly THEN before.text ELSE AllReplaced(before.text, before.at) ]_vars

\* They end.
ReplaceAllEnds == all ~> ~all

\* A second C-g cancels a search (docs/commands.html: "C-g cancels"): the first
\* goes back to an input that does not fail.  If that one fails too, every other
\* C-g looks for it again, and none cancels.
SecondQuitCancels == [][ BackToGood /\ alone => ~search_failed' ]_vars
=============================================================================
