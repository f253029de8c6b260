----------------------------- MODULE AtomicFile -----------------------------
(***************************************************************************)
(* What saving promises about one file, stated without temporary files,    *)
(* renames and syncs: the file always holds one whole version.  It goes    *)
(* from what was there to the whole text of the buffer in one step, and a  *)
(* loss of power leaves either the version that was safe or the last one.  *)
(* SaveFile implements this.                                               *)
(***************************************************************************)
CONSTANTS Version,  \* what a file may hold
          None      \* no file

VARIABLES
    buffer,  \* the text the editor would write
    file,    \* what a reader of the path finds
    safe     \* what it would find after a loss of power, at the least

avars == <<buffer, file, safe>>

AInit ==
    /\ buffer \in Version
    /\ file \in Version \cup {None}
    /\ safe = file

\* The user, a hook or the opening of a file changes the buffer.
Change == buffer' \in Version /\ UNCHANGED <<file, safe>>

\* The save takes effect.
Commit == file' = buffer /\ UNCHANGED <<buffer, safe>>

\* The directory reaches the disk.
Sync == safe' = file /\ UNCHANGED <<buffer, file>>

\* Another program writes, replaces or removes the file, for good.
Foreign == file' \in Version \cup {None} /\ safe' = file' /\ UNCHANGED buffer

\* Power is lost, and the editor with it.
Lose ==
    /\ file' \in {file, safe}
    /\ safe' = file'
    /\ buffer' \in Version

ANext == Change \/ Commit \/ Sync \/ Foreign \/ Lose

ASpec == AInit /\ [][ANext]_avars

=============================================================================
