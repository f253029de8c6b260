----------------------------- MODULE MCSaveFile -----------------------------
(***************************************************************************)
(* SaveFile for TLC: the buffer's file, and another for write-file.        *)
(***************************************************************************)
EXTENDS SaveFile

CONSTANTS p1, p2

ASSUME PathAssumption == {p1, p2} \subseteq Paths

First == INSTANCE AtomicFile WITH
    Version <- Version,
    buffer <- text,
    file <- ContentOf(disk[p1]),
    safe <- ContentOf(stable[p1])

Second == INSTANCE AtomicFile WITH
    Version <- Version,
    buffer <- text,
    file <- ContentOf(disk[p2]),
    safe <- ContentOf(stable[p2])

\* Seen from outside, the file a path names goes from whole version to whole
\* version, never a torn one, whatever editor_save, its failures and losses of
\* power do in between.
ImplementsAtomicFile == First!ASpec /\ Second!ASpec

=============================================================================
