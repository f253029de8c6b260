------------------------------ MODULE LexScan -------------------------------
(***************************************************************************)
(* scan (src/src/syntax.c): the lexical state in which a line ends, given  *)
(* the state in which it begins.  Only the state is here; the coloured     *)
(* spans, and the runs of characters that are skipped together to colour   *)
(* them (words, numbers, the names of tags), change nothing about it and   *)
(* are left out.                                                           *)
(*                                                                         *)
(* A line is a sequence of characters, "tick" the grave accent among them. *)
(* kind is the lexical policy of the mode: 0 none, 1 Python, 3 and 5       *)
(* templates; PHP is kind 2 with the name "php", the one name scan looks   *)
(* at, and stands here as a kind of its own.                               *)
(***************************************************************************)
EXTENDS Integers, Sequences

PHP == 6

Normal == "normal"
Closer == [single        |-> <<"'">>,
           double        |-> <<"\"">>,
           triple_single |-> <<"'", "'", "'">>,
           triple_double |-> <<"\"", "\"", "\"">>,
           backtick      |-> <<"tick">>,
           block_comment |-> <<"*", "/">>,
           html_comment  |-> <<"-", "-", ">">>,
           jinja_comment |-> <<"#", "}">>]

States == {Normal} \union DOMAIN Closer
Comments == {"block_comment", "html_comment", "jinja_comment"}

\* The characters w stand in s after position i.
Stands(s, i, w) == i + Len(w) <= Len(s) /\ SubSeq(s, i + 1, i + Len(w)) = w

\* What is passed over whole in a template: its slash or brace opens nothing.
Pairs == {<<"<", "/">>, <<"{", "{">>, <<"}", "}">>, <<"{", "%">>, <<"%", "}">>}
Template(kind) == kind \in {3, 5}
EndsLine(kind, s, i) ==
    \/ kind \in {1, 5, PHP} /\ s[i + 1] = "#"
    \/ kind # 1 /\ Stands(s, i, <<"/", "/">>)

\* What opens at position i, and its length: a comment, a string, or neither.
Opens(kind, s, i) ==
    LET c == s[i + 1]
        Opened(state, n) == [state |-> state, length |-> n]
    IN  IF kind # 1 /\ Stands(s, i, <<"/", "*">>) THEN Opened("block_comment", 2)
        ELSE IF Template(kind) /\ Stands(s, i, <<"<", "!", "-", "-">>) THEN Opened("html_comment", 4)
        ELSE IF Template(kind) /\ Stands(s, i, <<"{", "#">>) THEN Opened("jinja_comment", 2)
        ELSE IF c \in {"'", "\""}
             THEN IF kind = 1 /\ Stands(s, i, <<c, c, c>>)
                  THEN Opened(IF c = "'" THEN "triple_single" ELSE "triple_double", 3)
                  ELSE Opened(IF c = "'" THEN "single" ELSE "double", 1)
        ELSE IF c = "tick" /\ kind # 1 THEN Opened("backtick", 1)
        ELSE IF Template(kind) /\ \E w \in Pairs : Stands(s, i, w)
             THEN Opened(Normal, 2)
        ELSE Opened(Normal, 1)

\* A string in quotes goes on in the next line only after a backslash.
AtLineEnd(s, state) ==
    IF state \in {"single", "double"} /\ (s = <<>> \/ s[Len(s)] # "\\") THEN Normal ELSE state

ScanLine(kind, s, begins) ==
    LET from[i \in 0 .. Len(s), state \in States] ==
            IF i = Len(s) THEN AtLineEnd(s, state)
            ELSE IF state # Normal
                 THEN IF Stands(s, i, Closer[state]) THEN from[i + Len(Closer[state]), Normal]
                      ELSE IF state \notin Comments /\ s[i + 1] = "\\" /\ i + 1 < Len(s)
                           THEN from[i + 2, state]
                           ELSE from[i + 1, state]
                 ELSE IF EndsLine(kind, s, i) THEN Normal
                      ELSE from[i + Opens(kind, s, i).length, Opens(kind, s, i).state]
    IN  IF kind = 0 THEN Normal ELSE from[0, begins]
=============================================================================
