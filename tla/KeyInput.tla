------------------------------ MODULE KeyInput ------------------------------
(***************************************************************************)
(* editor_key (src/src/commands.c) outside the minibuffer: numeric         *)
(* arguments, key sequences, undefined keys, and keyboard macros, which    *)
(* feed recorded keys back into editor_key.                                *)
(*                                                                         *)
(* Keys are the code's own tokens.  Of the bindings the model keeps those  *)
(* that act on the state below and "C-f" for all others.  What a command   *)
(* does to the text is not of this module; what it is given is: the count, *)
(* and whether one was typed.                                              *)
(***************************************************************************)
EXTENDS Integers, Sequences, SequencesExt

CONSTANTS
    Keys,      \* the keys typed
    MaxTyped,  \* bound on the keys of one argument
    MaxCount,  \* the largest count a command is given (100000)
    MaxMacro   \* the size of a keyboard macro (10000)

\* (One C-u is within the limit.)
ASSUME LimitAssumption == {MaxTyped, MaxCount, MaxMacro} \subseteq Nat /\ MaxCount >= 4

VARIABLES
    prefix_set, prefix_digits, prefix_negative, prefix_value,
    key_prefix,                      \* the chords of an unfinished sequence
    macro_keys, macro_recording,
    playing,   \* what call-last-kbd-macro has left: repetitions and position
    ran,       \* what the last key ran, and what it was given
    typed,     \* auxiliary: the keys of the argument typed so far
    after,     \* auxiliary: how the input before that ended
    body       \* auxiliary: the keys of the commands recorded, whole ones

prefix == <<prefix_set, prefix_digits, prefix_negative, prefix_value>>
macro == <<macro_keys, macro_recording, playing, body>>
input_vars == <<prefix, key_prefix, macro, ran, typed, after>>

\* C-u multiplies a value up to here (25000), and a digit is taken up to
\* here (10000).
MaxUniversal == MaxCount \div 4
MaxBeforeDigit == MaxCount \div 10

DigitOf == [k \in {"0", "1", "M-1"} |-> IF k = "0" THEN 0 ELSE 1]
Minus == {"M--", "-"}
MetaDigit == {"M-1", "M--"}
PlainDigit == {"0", "1", "-"}
Printable == PlainDigit \cup {"a", "(", ")", "e"}

\* The key map, by key sequence.
Bindings ==
    [s \in {<<"C-f">>, <<"C-x", "(">>, <<"C-x", ")">>, <<"C-x", "e">>} |->
        CASE s = <<"C-f">> -> "forward-char"
          [] s = <<"C-x", "(">> -> "start-kbd-macro"
          [] s = <<"C-x", ")">> -> "end-kbd-macro"
          [] s = <<"C-x", "e">> -> "call-last-kbd-macro"]

NotPlaying == [left |-> 0, at |-> 0]
Playing == playing # NotPlaying
Nothing == [name |-> "none", count |-> 1, explicit |-> FALSE,
            typed |-> <<>>, after |-> "command"]

-----------------------------------------------------------------------------
(***************************************************************************)
(* The numeric argument.                                                   *)
(***************************************************************************)

\* Typing a key of an argument.
Typed(k) ==
    /\ typed' = Append(typed, k)
    /\ ran' = Nothing
    /\ UNCHANGED <<key_prefix, after>>

\* C-u
UniversalArgument ==
    /\ key_prefix = <<>>
    /\ prefix_set' = TRUE
    /\ IF ~prefix_set
       THEN prefix_value' = 4 /\ prefix_digits' = FALSE /\ prefix_negative' = FALSE
       ELSE /\ prefix_value' = IF ~prefix_digits /\ prefix_value <= MaxUniversal
                               THEN prefix_value * 4 ELSE prefix_value
            /\ UNCHANGED <<prefix_digits, prefix_negative>>
    /\ Typed("C-u")

IsArgumentKey(k) ==
    /\ key_prefix = <<>>
    /\ k \in MetaDigit \/ (prefix_set /\ k \in PlainDigit)

\* What a sign or a digit builds on: nothing, unless an argument was begun.
Begun == IF prefix_set THEN [value |-> prefix_value, digits |-> prefix_digits]
                       ELSE [value |-> 0, digits |-> FALSE]

Negative(k) ==
    /\ k \in Minus
    /\ prefix_set' = TRUE
    /\ prefix_negative' = TRUE
    /\ prefix_value' = IF Begun.digits THEN Begun.value ELSE 1
    /\ prefix_digits' = Begun.digits
    /\ Typed(k)

\* The value with the digit appended; the value of C-u or a sign is dropped.
DigitValue(k) ==
    (IF Begun.digits THEN Begun.value ELSE 0) * 10 + DigitOf[k]

Digit(k) ==
    /\ k \in DOMAIN DigitOf
    /\ Begun.digits => Begun.value <= MaxBeforeDigit
    /\ prefix_set' = TRUE
    /\ prefix_negative' = (prefix_set /\ prefix_negative)
    /\ prefix_value' = DigitValue(k)
    /\ prefix_digits' = TRUE
    /\ Typed(k)

\* "Argument limit reached": the digit is refused and the argument stays.
DigitRefused(k) ==
    /\ k \in DOMAIN DigitOf
    /\ Begun.digits /\ Begun.value > MaxBeforeDigit
    /\ ran' = Nothing
    /\ UNCHANGED <<prefix, key_prefix, typed, after>>

\* What a command is given.
Count == LET n == IF prefix_set THEN prefix_value ELSE 1
         IN  IF prefix_negative THEN -n ELSE n

\* The sign is left for the next command.
TakeArgument_KeepsSign ==
    prefix_set' = FALSE /\ prefix_digits' = FALSE /\ UNCHANGED <<prefix_value, prefix_negative>>

TakeArgument ==
    /\ prefix_set' = FALSE /\ prefix_digits' = FALSE /\ prefix_negative' = FALSE
    /\ UNCHANGED prefix_value

\* The input up to here is over: run by a command, quit, or undefined.
InputEnds(how) == key_prefix' = <<>> /\ typed' = <<>> /\ after' = how

\* A command runs, with the argument.
Run(name, count, explicit) ==
    ran' = [name |-> name, count |-> count, explicit |-> explicit,
            typed |-> typed, after |-> after]

-----------------------------------------------------------------------------
(***************************************************************************)
(* Keyboard macros.                                                        *)
(***************************************************************************)

\* The recorded keys once this key has been recorded.
Recorded(k) == IF macro_recording /\ ~Playing THEN Append(macro_keys, k) ELSE macro_keys

\* Recording goes on, through a key that ends a command or does not.
Recording(k, ends) ==
    /\ macro_keys' = Recorded(k)
    /\ body' = IF ends /\ macro_recording /\ ~Playing THEN Recorded(k) ELSE body
    /\ UNCHANGED macro_recording

StartMacro ==
    /\ macro_keys' = <<>>
    /\ macro_recording' = TRUE
    /\ body' = <<>>

\* The last chord of C-x ) only.
Chords_One == 1

\* How many keys end-kbd-macro takes to be its own.
Chords == 2

EndMacro(k) ==
    LET keys == Recorded(k)
    IN  /\ macro_recording' = FALSE
        /\ macro_keys' = IF Len(keys) >= 2 THEN SubSeq(keys, 1, Len(keys) - Chords)
                                           ELSE keys
        /\ UNCHANGED body

\* Playing while playing is not refused.
MayPlay_Always == TRUE

\* "Recursive macro rejected"
MayPlay == ~Playing /\ ~macro_recording

\* Whether the key calls the macro, and its loop has something to play.
CallsMacro(k) ==
    LET sequence == Append(key_prefix, k)
    IN  /\ sequence \in DOMAIN Bindings
        /\ Bindings[sequence] = "call-last-kbd-macro"
        /\ Count \in 1 .. MaxCount
        /\ macro_keys # <<>>

-----------------------------------------------------------------------------
(***************************************************************************)
(* A key.                                                                  *)
(***************************************************************************)

\* What C-g and an undefined key do to the argument.
DropArgument ==
    prefix_set' = FALSE /\ UNCHANGED <<prefix_digits, prefix_negative, prefix_value>>

KeyboardQuit(k) ==
    /\ DropArgument
    /\ InputEnds("quit")
    /\ macro_recording' = FALSE
    /\ macro_keys' = Recorded(k)
    /\ body' = IF macro_recording /\ ~Playing THEN Recorded(k) ELSE body
    /\ ran' = Nothing

ArgumentKey(k) ==
    /\ Negative(k) \/ Digit(k) \/ DigitRefused(k)
    /\ Recording(k, FALSE)

\* "Numeric argument exceeds safety limit"
CountAllowed == Count \in -MaxCount .. MaxCount

\* A bound key or sequence.
Command(k) ==
    /\ LET name == Bindings[Append(key_prefix, k)]
       IN  IF CountAllowed
           THEN /\ Run(name, Count, prefix_set)
                /\ CASE name = "start-kbd-macro" -> StartMacro
                     [] name = "end-kbd-macro" -> EndMacro(k)
                     [] OTHER -> Recording(k, TRUE)
           ELSE Recording(k, TRUE) /\ ran' = Nothing
    /\ TakeArgument
    /\ InputEnds("command")

IsPrefixKey(keys) == \E s \in DOMAIN Bindings : IsStrictPrefix(keys, s)

Sequence(k) ==
    /\ key_prefix' = Append(key_prefix, k)
    /\ Recording(k, FALSE)
    /\ ran' = Nothing
    /\ UNCHANGED <<prefix, typed, after>>

\* A printable key inserts itself, or is refused with the argument.
SelfInsertKey(k) ==
    /\ IF Count \in 0 .. MaxCount THEN Run("self-insert", Count, prefix_set)
                                  ELSE ran' = Nothing
    /\ TakeArgument
    /\ InputEnds("command")
    /\ Recording(k, TRUE)

Undefined(k) ==
    /\ DropArgument
    /\ InputEnds("undefined")
    /\ Recording(k, TRUE)
    /\ ran' = Nothing

\* "Macro size limit reached": the key is not recorded and does nothing else.
MacroFull ==
    /\ macro_recording /\ ~Playing /\ Len(macro_keys) >= MaxMacro
    /\ macro_recording' = FALSE
    /\ ran' = Nothing
    /\ UNCHANGED <<prefix, key_prefix, macro_keys, playing, body, typed, after>>

\* editor_key once the key has been recorded.
Handle(k) ==
    LET full == Append(key_prefix, k)
    IN  IF k = "C-g" THEN KeyboardQuit(k)
        ELSE IF k = "C-u" /\ key_prefix = <<>>
        THEN UniversalArgument /\ Recording(k, FALSE)
        ELSE IF IsArgumentKey(k) THEN ArgumentKey(k)
        ELSE IF full \in DOMAIN Bindings THEN Command(k)
        ELSE IF IsPrefixKey(full) THEN Sequence(k)
        ELSE IF key_prefix = <<>> /\ k \in Printable THEN SelfInsertKey(k)
        ELSE Undefined(k)

Full == macro_recording /\ Len(macro_keys) >= MaxMacro

\* The user, or a client, presses a key.
Press(k) ==
    /\ ~Playing
    /\ ~Full
    /\ Handle(k)
    /\ Len(typed') <= MaxTyped
    /\ playing' = IF CallsMacro(k) /\ MayPlay THEN [left |-> Count, at |-> 1] ELSE playing

\* call-last-kbd-macro feeds the next key of the macro.  Its handler may end
\* the macro or start another: the loop looks at macro_len each time.
PlayKey ==
    /\ Playing
    /\ playing.at <= Len(macro_keys)
    /\ LET k == macro_keys[playing.at]
       IN  /\ Handle(k)
           /\ playing' = IF CallsMacro(k) /\ MayPlay THEN [left |-> Count, at |-> 1]
                         ELSE [playing EXCEPT !.at = @ + 1]

\* A repetition is over.
PlayAgain ==
    /\ Playing
    /\ playing.at > Len(macro_keys)
    /\ playing' = IF playing.left > 1 THEN [left |-> playing.left - 1, at |-> 1]
                                      ELSE NotPlaying
    /\ UNCHANGED <<prefix, key_prefix, macro_keys, macro_recording, body, ran, typed, after>>

InputInit ==
    /\ prefix_set = FALSE /\ prefix_digits = FALSE /\ prefix_negative = FALSE
    /\ prefix_value = 0
    /\ key_prefix = <<>>
    /\ macro_keys = <<>> /\ macro_recording = FALSE /\ playing = NotPlaying
    /\ ran = Nothing
    /\ typed = <<>> /\ after = "command" /\ body = <<>>

InputNext ==
    \/ \E k \in Keys : Press(k)
    \/ MacroFull
    \/ PlayKey
    \/ PlayAgain

InputSpec == InputInit /\ [][InputNext]_input_vars

FairSpec == InputSpec /\ WF_input_vars(PlayKey) /\ WF_input_vars(PlayAgain)

-----------------------------------------------------------------------------
(***************************************************************************)
(* Properties.                                                             *)
(***************************************************************************)

\* The state is of the shape the code keeps it in; no count a command is given
\* is beyond its limit, and a macro is not longer than its own.
InputTypeOK ==
    /\ prefix_set \in BOOLEAN /\ prefix_digits \in BOOLEAN /\ prefix_negative \in BOOLEAN
    /\ prefix_value \in 0 .. 10 * MaxBeforeDigit + 9
    /\ \E s \in DOMAIN Bindings : IsStrictPrefix(key_prefix, s)
    /\ macro_keys \in Seq(Keys) /\ Len(macro_keys) <= MaxMacro
    /\ macro_recording \in BOOLEAN
    /\ playing \in [left : Nat, at : 0 .. MaxMacro + 1]
    /\ ran.count \in -MaxCount .. MaxCount /\ ran.explicit \in BOOLEAN
    /\ typed \in Seq(Keys) /\ body \in Seq(Keys)
    /\ after \in {"command", "quit", "undefined"}

\* The digits among the keys, read as a decimal number.
Number(keys) ==
    LET upto[i \in 0 .. Len(keys)] ==
            IF i = 0 THEN 0
            ELSE IF keys[i] \in DOMAIN DigitOf THEN 10 * upto[i - 1] + DigitOf[keys[i]]
            ELSE upto[i - 1]
    IN  upto[Len(keys)]

\* What each C-u multiplies by four, as long as the product is within the limit;
\* a sign makes one of what they had made.
Fours(keys) ==
    LET upto[i \in 0 .. Len(keys)] ==
            IF i = 0 \/ keys[i] \in Minus THEN 1
            ELSE IF keys[i] = "C-u" /\ 4 * upto[i - 1] <= MaxCount THEN 4 * upto[i - 1]
            ELSE upto[i - 1]
    IN  upto[Len(keys)]

\* Whether one of the keys is in S.
Has(keys, S) == \E i \in DOMAIN keys : keys[i] \in S

\* What the keys of an argument ask for, as docs/commands.html states it: C-u is
\* four and multiplies by four, digits make a decimal number, a sign negates.
\* Digits win over C-u and over a sign typed before them; a sign with no digits
\* before it makes one of what C-u had made, and more C-u multiply that.
Meaning(keys) ==
    LET magnitude == IF Has(keys, DOMAIN DigitOf) THEN Number(keys) ELSE Fours(keys)
    IN  IF Has(keys, Minus) THEN -magnitude ELSE magnitude

\* The argument a command is given is the argument that was typed for it: all
\* of it, in the order it was typed, nothing left over from an argument before,
\* whether it was used by a command, refused as too large, or recorded in a
\* macro and played; and it is within its limit, as macros are.  (Left out: no argument typed after
\* C-g or an undefined key, where the sign of the one they dropped remains.)
ArgumentIsTyped ==
    /\ InputTypeOK
    /\ ran.after = "command" \/ ran.typed # <<>> =>
        /\ ran.count = Meaning(ran.typed)
        /\ ran.explicit = (ran.typed # <<>>)

ArgumentKeys == {"C-u"} \cup MetaDigit \cup PlainDigit

\* A macro ended by C-x ) is the keys of the whole commands typed since C-x (,
\* and of C-x ( and C-x ) nothing but the argument C-x ) itself was given: the
\* code drops two keys, so what was typed before them (C-u, M-1) stays at the
\* end of the macro, and nothing else ever does.
MacroIsWhatWasTyped ==
    [][ macro_recording /\ ~macro_recording' /\ ran'.name = "end-kbd-macro" =>
            LET left == SubSeq(macro_keys', Len(body) + 1, Len(macro_keys'))
            IN  /\ macro_keys' = body \o left
                /\ left = <<>> <=> ran'.typed = <<>>
                /\ \A i \in DOMAIN left : left[i] \in ArgumentKeys ]_input_vars

\* Playing a macro ends, whatever keys it is made of.
PlaybackEnds == Playing ~> ~Playing
=============================================================================
