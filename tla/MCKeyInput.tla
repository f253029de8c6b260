----------------------------- MODULE MCKeyInput -----------------------------
(* KeyInput for TLC: the keys. *)
EXTENDS KeyInput

AllKeys == {"C-u", "M--", "M-1", "C-x", "(", ")", "e", "C-g"}
=============================================================================
