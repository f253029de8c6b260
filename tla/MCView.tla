------------------------------- MODULE MCView -------------------------------
(* A small instance of View, with the scan of the code. *)
EXTENDS View

L == INSTANCE LexScan

\* A line that opens or closes a string, and one that does neither, with a tab, a
\* wide character ("W") and one without width ("0") among them.
MCLine == {<<"\t", "'", "'", "'">>, <<"\t", "0", "W">>}
MCChar == {"\t", "'", "0", "W"}
MCTab == "\t"
MCWidth(c) == CASE c = "W" -> 2 [] c = "0" -> 0 [] OTHER -> 1
MCScreens == {[rows |-> 4, cols |-> 12], [rows |-> 7, cols |-> 25]}

MCState == L!States
MCNormal == L!Normal
MCScan(k, l, s) == L!ScanLine(k, l, s)
=============================================================================
