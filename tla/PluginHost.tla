----------------------------- MODULE PluginHost -----------------------------
(***************************************************************************)
(* Python in the backend (src/src/python.c): commands and hooks that call  *)
(* back into the editor, which calls hooks and commands again, as deep as  *)
(* they please.  One thread runs all of it; its state is the stack of      *)
(* calls.                                                                  *)
(*                                                                         *)
(* What a callback does is any sequence of calls of the API, after which   *)
(* it returns or raises: an exception one of the calls raised may be       *)
(* caught, so nothing follows from it.                                     *)
(***************************************************************************)
EXTENDS Integers, Sequences, FiniteSets

CONSTANTS
    Callbacks,   \* Python functions
    Registered,  \* those the configuration registers for an event
    MaxDepth,    \* command_depth at most: 32
    MaxHooks,    \* bound: functions registered for one event
    MaxCalls,    \* bound: calls of the API and requests
    MaxStack     \* bound: calls within calls

ASSUME PluginAssumption ==
    /\ {MaxDepth, MaxHooks, MaxCalls, MaxStack} \subseteq Nat \ {0}
    /\ Registered \in Seq(Callbacks)

VARIABLES
    stack,          \* the calls, the innermost first
    result,         \* what the call that has just returned gave: "ok", "error"; or "none"
    hooks,          \* e->python_hooks
    in_hook,
    command_depth,
    group,          \* the number of the undo group
    due, passed,    \* the hooks a save has to pass, and those it has passed
    edits,          \* the edits: the request they belong to, and their group
    request,        \* the request: its number, and whether it is a command
    writes,         \* how many files were written
    calls           \* how many calls there were

host == <<hooks, in_hook, command_depth, group>>
history == <<due, passed, edits, request, writes>>
vars == <<stack, result, host, history, calls>>

Event == {"text_changed", "before_save", "after_save", "after_open"}

\* A native function with what it has left to do.
Native(todo) == [kind |-> "native", todo |-> todo]
\* editor_command
Command == [kind |-> "command"]
\* Python code.
Callback(c) == [kind |-> "callback", who |-> c]
\* event(): the callbacks still to be called.
Dispatch(name, list) == [kind |-> "event", name |-> name, rest |-> list, ok |-> TRUE]

Top == Head(stack)
Running(kind) == result = "none" /\ stack # <<>> /\ Top.kind = kind
Returned(kind) == result # "none" /\ stack # <<>> /\ Top.kind = kind
Dispatching == \E i \in DOMAIN stack : stack[i].kind = "event"
Commands == Cardinality({i \in DOMAIN stack : stack[i].kind = "command"})

\* The innermost call returns.
Return(r) == stack' = Tail(stack) /\ result' = r

\* The innermost call calls.
Call(f) == stack' = <<f>> \o stack /\ result' = "none"

-----------------------------------------------------------------------------
(***************************************************************************)
(* The operations, called by a client or by Python.                        *)
(***************************************************************************)

\* The bound leaves room for a command, the native function it runs, the event
\* that one emits and the callback that is called for it.
Calls ==
    /\ calls < MaxCalls /\ Len(stack) + 4 <= MaxStack
    /\ calls' = calls + 1

\* A client's request is the outermost call; one that is no command is a group of
\* its own before it begins, one that is becomes one in editor_command.
Requested(command) ==
    request' = IF stack = <<>> THEN [n |-> request.n + 1, command |-> command] ELSE request

EditOf(req, g) == [request |-> req.n, command |-> req.command, group |-> g]

\* What the operations of the protocol and the API are to the group.
NewGroup == IF stack = <<>> THEN group + 1 ELSE group

CanCall == result = "none" /\ (stack # <<>> => Top.kind = "callback")

\* An edit, that is refused or changes the text.
Edit(refused) ==
    /\ CanCall /\ Calls
    /\ Requested(FALSE)
    /\ group' = NewGroup
    /\ edits' = IF refused THEN edits ELSE Append(edits, EditOf(request', group'))
    /\ Call(Native(IF refused THEN <<"error">> ELSE <<"text_changed">>))
    /\ UNCHANGED <<hooks, in_hook, command_depth, due, passed, writes>>

\* editor_save, under the name of the buffer or another.
Save(changed) ==
    /\ CanCall /\ Calls
    /\ Requested(FALSE)
    /\ group' = NewGroup
    /\ IF Dispatching THEN UNCHANGED <<due, passed>>
                      ELSE due' = hooks["before_save"] /\ passed' = <<>>
    /\ Call(Native(IF changed THEN <<"before_save", "write", "after_open", "after_save">>
                              ELSE <<"before_save", "write", "after_save">>))
    /\ UNCHANGED <<hooks, in_hook, command_depth, edits, writes>>

\* editor_open of a file that is not shown yet
Open ==
    /\ CanCall /\ Calls
    /\ Requested(FALSE)
    /\ group' = NewGroup
    /\ Call(Native(<<"after_open">>))
    /\ UNCHANGED <<hooks, in_hook, command_depth, due, passed, edits, writes>>

\* A command within a command begins a group too.
BeginsGroup_Always == TRUE

\* Only the outermost command begins a group.
BeginsGroup == command_depth = 0

\* editor_command: of a native command that edits, or of a Python command.
RunCommand ==
    /\ CanCall /\ Calls
    /\ Requested(TRUE)
    /\ IF command_depth >= MaxDepth
       THEN /\ Call(Native(<<"error">>))
            /\ UNCHANGED <<group, command_depth>>
       ELSE /\ group' = IF BeginsGroup THEN group + 1 ELSE group
            /\ command_depth' = command_depth + 1
            /\ Call(Command)
    /\ UNCHANGED <<hooks, in_hook, due, passed, edits, writes>>

\* py_on
On(name, c) ==
    /\ Running("callback") /\ calls < MaxCalls
    /\ Len(hooks[name]) < MaxHooks
    /\ hooks' = [hooks EXCEPT ![name] = Append(@, c)]
    /\ calls' = calls + 1
    /\ UNCHANGED <<stack, result, in_hook, command_depth, group, history>>

-----------------------------------------------------------------------------
(***************************************************************************)
(* What goes on inside.                                                    *)
(***************************************************************************)

\* dispatch of a native command, that is refused or edits
NativeCommand(refused) ==
    /\ Running("command")
    /\ edits' = IF refused THEN edits ELSE Append(edits, EditOf(request, group))
    /\ Call(Native(IF refused THEN <<"error">> ELSE <<"text_changed">>))
    /\ UNCHANGED <<host, due, passed, request, writes, calls>>

\* plugins_command
PythonCommand(c) ==
    /\ Running("command")
    /\ Call(Callback(c))
    /\ UNCHANGED <<host, history, calls>>

\* The command is over; an exception makes it fail.
CommandReturns ==
    /\ Returned("command")
    /\ command_depth' = command_depth - 1
    /\ Return(result)
    /\ UNCHANGED <<hooks, in_hook, group, history, calls>>

\* The function goes on, whatever the call gave, ...
CallbackContinues ==
    /\ Returned("callback")
    /\ result' = "none"
    /\ UNCHANGED <<stack, host, history, calls>>

\* ... and returns or raises.
CallbackReturns(r) ==
    /\ Running("callback")
    /\ Return(r)
    /\ UNCHANGED <<host, history, calls>>

\* Events are dispatched within events.
Suppressed_Never(name) == hooks[name] = <<>>

\* event() returns at once: within a hook, or when nobody has registered.
Suppressed(name) == in_hook \/ hooks[name] = <<>>

\* A native function takes its next step, an event.
Emit ==
    /\ Running("native") /\ Top.todo # <<>> /\ Head(Top.todo) \in Event
    /\ LET name == Head(Top.todo)
           on == <<[Top EXCEPT !.todo = Tail(@)]>> \o Tail(stack)
       IN  IF Suppressed(name)
           THEN /\ stack' = on
                /\ UNCHANGED <<result, in_hook>>
           ELSE /\ stack' = <<Dispatch(name, hooks[name])>> \o on
                /\ in_hook' = TRUE
                /\ UNCHANGED result
    /\ UNCHANGED <<hooks, command_depth, group, history, calls>>

\* The save writes the file, or fails to.
Write ==
    /\ Running("native") /\ Top.todo # <<>> /\ Head(Top.todo) = "write"
    /\ stack' = <<[Top EXCEPT !.todo = Tail(@)]>> \o Tail(stack)
    /\ writes' = writes + 1
    /\ UNCHANGED <<result, host, due, passed, edits, request, calls>>

Fails ==
    /\ Running("native") /\ Top.todo # <<>> /\ Head(Top.todo) \in {"write", "error"}
    /\ Return("error")
    /\ UNCHANGED <<host, history, calls>>

Done ==
    /\ Running("native") /\ Top.todo = <<>>
    /\ Return("ok")
    /\ UNCHANGED <<host, history, calls>>

\* The event is over: only that of before_save may fail, and fails the save.
NativeContinues ==
    /\ Returned("native")
    /\ IF result = "error" THEN Return("error") ELSE result' = "none" /\ UNCHANGED stack
    /\ UNCHANGED <<host, history, calls>>

Strict(name) == name = "before_save"

\* The next callback of the event is called ...
NextHook ==
    /\ Running("event") /\ Top.rest # <<>> /\ (Strict(Top.name) => Top.ok)
    /\ Call(Callback(Head(Top.rest)))
    /\ UNCHANGED <<host, history, calls>>

\* ... and has returned or raised.
HookReturned ==
    /\ Returned("event")
    /\ stack' = <<[Top EXCEPT !.ok = @ /\ result = "ok", !.rest = Tail(@)]>> \o Tail(stack)
    /\ result' = "none"
    /\ passed' = IF Strict(Top.name) /\ result = "ok" THEN Append(passed, Head(Top.rest)) ELSE passed
    /\ UNCHANGED <<host, due, edits, request, writes, calls>>

\* A failing event returns before in_hook is cleared.
EventOver_EarlyReturn ==
    /\ Return(IF Top.ok \/ ~Strict(Top.name) THEN "ok" ELSE "error")
    /\ in_hook' = ~Top.ok

EventOver ==
    /\ Return(IF Top.ok \/ ~Strict(Top.name) THEN "ok" ELSE "error")
    /\ in_hook' = FALSE

EventReturns ==
    /\ Running("event") /\ (Top.rest = <<>> \/ (Strict(Top.name) /\ ~Top.ok))
    /\ EventOver
    /\ UNCHANGED <<hooks, command_depth, group, history, calls>>

\* The request is answered.
Respond ==
    /\ stack = <<>> /\ result # "none"
    /\ result' = "none"
    /\ UNCHANGED <<stack, host, history, calls>>

-----------------------------------------------------------------------------
Init ==
    /\ stack = <<>> /\ result = "none"
    /\ hooks \in [Event -> {<<>>, Registered}]
    /\ in_hook = FALSE /\ command_depth = 0 /\ group = 0
    /\ due = <<>> /\ passed = <<>> /\ edits = <<>>
    /\ request = [n |-> 0, command |-> FALSE]
    /\ writes = 0 /\ calls = 0

Next ==
    \/ \E b \in BOOLEAN : Edit(b) \/ Save(b) \/ NativeCommand(b)
    \/ Open \/ RunCommand \/ CommandReturns
    \/ \E c \in Callbacks : PythonCommand(c) \/ \E name \in Event : On(name, c)
    \/ CallbackContinues \/ \E r \in {"ok", "error"} : CallbackReturns(r)
    \/ Emit \/ Write \/ Fails \/ Done \/ NativeContinues
    \/ NextHook \/ HookReturned \/ EventReturns \/ Respond

Spec == Init /\ [][Next]_vars

-----------------------------------------------------------------------------
(***************************************************************************)
(* Properties.                                                             *)
(***************************************************************************)

\* in_hook and command_depth say what the stack does, however calls failed;
\* and no event is dispatched within another.
TypeOK ==
    /\ in_hook = Dispatching
    /\ Cardinality({i \in DOMAIN stack : stack[i].kind = "event"}) <= 1
    /\ command_depth = Commands /\ command_depth <= MaxDepth
    /\ result \in {"none", "ok", "error"}
    /\ Len(stack) <= MaxStack

\* No file is written before every function registered for before_save has been
\* called, once and in the order of registration, and has returned normally
\* (docs/api.html: "A failing before_save hook aborts saving"; "callbacks added
\* during dispatch run on later events"), whatever the functions called and how
\* earlier calls failed.  Exempt are saves by a hook, for which none is called.
HooksGuardSaves == [][writes' # writes /\ ~Dispatching => passed = due]_vars

\* All edits of a command, of the commands it runs and of the hooks these set
\* off are one group, which undo takes back at once; and no two requests share
\* a group, whatever failed between them.
CommandIsOneGroup ==
    /\ TypeOK
    /\ \A i, j \in DOMAIN edits :
        /\ edits[i].request # edits[j].request => edits[i].group # edits[j].group
        /\ edits[i].request = edits[j].request /\ edits[i].command => edits[i].group = edits[j].group
=============================================================================
