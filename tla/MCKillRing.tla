----------------------------- MODULE MCKillRing -----------------------------
(* Small instances of KillRing for TLC. *)
EXTENDS KillRing

MCBack == {-1, 1}

\* Every short text, and some with words and blanks in more than one place.
MCTexts == Strings(2) \cup {<<"a", " ", "a">>, <<"a", " ", "n">>, <<"a", "n", "a">>,
                            <<"n", "n", "a">>, <<" ", "a", "n">>}
=============================================================================
