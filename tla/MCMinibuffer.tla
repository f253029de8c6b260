---------------------------- MODULE MCMinibuffer ----------------------------
(* Small instances of Minibuffer for TLC. *)
EXTENDS Minibuffer

\* Texts for prompts, and all texts of a length that only editor_find looks at.
MCTexts == {<<"a", "b", "a">>, <<"a", "a">>} \cup [1 .. 5 -> Chars]
=============================================================================
