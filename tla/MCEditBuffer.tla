---------------------------- MODULE MCEditBuffer ----------------------------
(***************************************************************************)
(* EditBuffer for TLC: "L" opens a two-byte character that "c" or "d"      *)
(* completes, so that two characters may share either of their bytes.      *)
(***************************************************************************)
EXTENDS EditBuffer

MCByte == {"a", "L", "c", "d"}
MCLead == {"L"}
MCCont == {"c", "d"}

\* A character to stand before, after and inside of, the same with another
\* last byte, and a string that is no UTF-8.
MCInputs == {<<>>, <<"L", "c">>, <<"c">>}
MCOriginal == <<"L", "d">>

=============================================================================
