---------------------------- MODULE MCPieceTable ----------------------------
(***************************************************************************)
(* PieceTable for TLC: a newline "n", a letter "a" and a character of two  *)
(* bytes "L" and "c".                                                      *)
(***************************************************************************)
EXTENDS PieceTable

\* The last one is cut in two, the first of its characters whole.
MCOriginals == {<<>>, <<"a", "n", "L", "c">>}
MCInputs == {<<"n">>, <<"a">>, <<"a", "L", "c">>}
=============================================================================
